---- MODULE Spec2Model ----
(***************************************************************************)
(* Transaction lifecycle manager (src/src/core/random.ts, the part that    *)
(* was core/transactionLifecycle.ts) and the simulation scheduler          *)
(* (src/src/worker/simulationEngine.ts) of nova-sandbox.                   *)
(*                                                                         *)
(* Spec      : createTransaction / postTransaction / cancelTransaction /   *)
(*             processPendingTransactions called one after the other on a  *)
(*             store that answers every call.                              *)
(* SchedSpec : startSimulation / stopSimulation / the interval timer /     *)
(*             runSimulationCycle, interleaved at their awaits, on a store *)
(*             whose calls may throw.                                      *)
(* FaultSpec : the lifecycle calls on a store of which one call throws.    *)
(* RaceSpec  : post and cancel calls interleaved at their store accesses.  *)
(* LedgerSpec, PaydaySpec, RowSpec, ChaosSpec and the engine              *)
(*             specifications are introduced where they are defined.      *)
(***************************************************************************)
EXTENDS Integers, Sequences, FiniteSets

VARIABLES
    accounts,          \* Account rows: accountId -> row
    txns,              \* Transaction rows in insertion order; the id is the index
    now,               \* the clock (Date.now()), in ticks
    result,            \* what the latest lifecycle call returned: a TransactionResult's code
                       \* ("OK" for success: true), "COUNTS" for the batch's counters
    isRunning,         \* simulationEngine.ts module variable isRunning
    simulationTimer,   \* simulationEngine.ts module variable simulationTimer (NoTimer = null)
    liveTimers,        \* intervals created by setInterval and not yet cleared
    timersMade,        \* how many intervals setInterval has created
    stateIsRunning,    \* SimulationState.isRunning, the persisted flag
    cycles,            \* the executions of runSimulationCycle in flight: [origin, pc]
    stopped,           \* history: stopSimulation returned and startSimulation was not called since
    frozenAccounts,    \* CycleSpec: the accounts whose Account.frozen is true
    inserted,          \* CycleSpec: Transaction rows the cycle has inserted, per account
    today,             \* CycleSpec: the calendar day of the clock
    lastDayProcessed,  \* simulationEngine.ts module variable lastDayProcessed (NoDay = null)
    dailyRuns,         \* history: runs of processDailyBankingTasks, per calendar day
    cycle,             \* CycleSpec: the locals of the latest runSimulationCycle
    fraudEventActive,  \* SimulationState.fraudEventActive
    marketCrashActive, \* SimulationState.marketCrashActive
    marketHours,       \* whether the clock's hour is within 9..16
    randomEvents,      \* EventSpec: the locals of the latest checkForRandomEvents
    injected,          \* history: what the latest checkForRandomEvents injected
    runs,              \* DetSpec: two cycles on copies of one stored state: run -> locals
    loan,              \* LoanSpec: the Loan row (NoLoan before applyForLoan)
    loanBalance,       \* LoanSpec: the balance of the loan's account
    loanResult,        \* what the latest loan call returned
    missedInRow,       \* history: missed payments since the latest successful payment
    defaultedBy,       \* history: the rule that defaulted the loan
    accountFrozen,     \* FraudSpec: Account.frozen of the users' accounts
    fraudAlerts,       \* FraudSpec: FraudAlert rows in insertion order
    frozenBefore,      \* history: Account.frozen before the latest createFraudAlert
    alertJustCreated,  \* history: the latest call was createFraudAlert
    marketAssets,      \* MarketSpec: MarketAsset rows: symbol -> [price, change]
    marketSteps,       \* MarketSpec: how many market calls were made
    instances,         \* RngSpec: two SeededRandom instances: instance -> [pc, seed, state, calls, results]
    chaosConfig,       \* chaos settings of the in-memory simulation config
    failuresInjected,  \* module counter of the chaos middleware
    lastRequest,       \* the latest HTTP request and what the middleware did to it
    stateRow,          \* currentMode of the SimulationState singleton row
    fault,             \* FaultSpec history: the latest lifecycle call, its failing store call, the balance before it
    race,              \* RaceSpec: the lifecycle calls in flight: caller -> locals
    payroll            \* PaydaySpec history: the cycles run on the current day and the salary credits they created, per account

vars == <<accounts, txns, now, result, isRunning, simulationTimer, liveTimers,
          timersMade, stateIsRunning, cycles, stopped,
          frozenAccounts, inserted, today, lastDayProcessed, dailyRuns, cycle,
          fraudEventActive, marketCrashActive, marketHours, randomEvents, injected,
          runs,
          loan, loanBalance, loanResult, missedInRow, defaultedBy,
          accountFrozen, fraudAlerts, frozenBefore, alertJustCreated,
          marketAssets, marketSteps,
          instances,
          chaosConfig, failuresInjected, lastRequest, stateRow,
          fault,
          race,
          payroll>>

lifecycleVars == <<accounts, txns, now, result>>

schedVars == <<isRunning, simulationTimer, liveTimers, timersMade,
               stateIsRunning, cycles, stopped>>

cycleVars == <<frozenAccounts, inserted, today, lastDayProcessed, dailyRuns, cycle>>

\* the variables of the engines other than the lifecycle manager and the scheduler
eventVars == <<fraudEventActive, marketCrashActive, marketHours, randomEvents, injected>>

detVars == <<runs>>

loanVars == <<loan, loanBalance, loanResult, missedInRow, defaultedBy>>

fraudVars == <<accountFrozen, fraudAlerts, frozenBefore, alertJustCreated>>

marketVars == <<marketAssets, marketSteps>>

rngVars == <<instances>>

chaosVars == <<chaosConfig, failuresInjected, lastRequest, stateRow>>

faultVars == <<fault>>

raceVars == <<race>>

payrollVars == <<payroll>>

engineVars == <<cycleVars, eventVars, detVars, loanVars, fraudVars, marketVars, rngVars, chaosVars, faultVars, raceVars, payrollVars>>

----------------------------------------------------------------------------
(* Bounds of the model *)

\* at most this many Transaction rows (the opening row included)
MaxTxns == 3

\* the clock stops here
MaxTime == 1

\* clock ticks in one calendar day
TicksPerDay == 1

\* at most this many executions of runSimulationCycle in flight at once
MaxCycles == 2

\* at most this many setInterval calls
MaxTimers == 2

\* the clock of CycleSpec stops at this calendar day
MaxDay == 1

\* at most this many createTransaction calls for one account in one cycle
MaxNew == 1

\* the daily batch is followed up to this many runs on one calendar day
MaxDailyRuns == 2

\* the pending transactions that are due in the stored state of DetSpec
MaxDue == 2

\* at most this many FraudAlert rows
MaxAlerts == 2

\* at most this many market calls
MaxMarketSteps == 3

\* at most this many calls on one SeededRandom instance
MaxCalls == 3

----------------------------------------------------------------------------
(* Program constants and null values *)

\* config.pendingDurationMs, in clock ticks
PendingDuration == 1

\* config.maxOverdraftAmount
MaxOverdraftAmount == 50000

\* config.maxAmountChangePercent
MaxAmountChangePercent == 20

\* Math.max(100, finalAmount)
MinFinalAmount == 100

\* Account.dailySpentDate IS NULL
NoDate == -1

\* finalAmount === undefined
NoAmount == -1

\* lastDayProcessed === null
NoDay == -1

\* Transaction.postAt IS NULL (seeded, already posted rows)
NoPostAt == -1

\* simulationTimer === null
NoTimer == 0

Accounts == {"a1"}

\* an accountId the store has no row for
AccountIds == Accounts \cup {"missing"}

Types == {"credit", "debit"}

\* options.amount in cents, by options.type: a purchase or a rent payment,
\* and one income amount
Amounts(type) == IF type = "debit" THEN {30000, 120000} ELSE {30000}

\* the percentage (rng.next() * 2 - 1) * maxAmountChangePercent, in [-max, max)
ChangePercents == {-MaxAmountChangePercent}

\* the options of the createTransaction calls of Next: every validated
\* combination, and the large debit with skipValidation
CreateOptions ==
    {o \in [type : Types, amount : {30000, 120000}, skip : BOOLEAN] :
        /\ o.amount \in Amounts(o.type)
        /\ o.skip => (o.type = "debit" /\ o.amount = 120000)}

\* transaction ids a caller may name; ids above Len(txns) have no row
TxnIds == 1..MaxTxns

----------------------------------------------------------------------------
(* Helpers *)

Signed(type, amount) == IF type = "credit" THEN amount ELSE -amount

\* today.setHours(0, 0, 0, 0)
DayStart(t) == (t \div TicksPerDay) * TicksPerDay

\* Math.round(n / d) for d > 0
RoundDiv(n, d) == (2 * n + d) \div (2 * d)

Max(a, b) == IF a >= b THEN a ELSE b

----------------------------------------------------------------------------
(* The store right after seeding: every account has one posted opening     *)
(* credit and its balance is that credit (seed/index.ts writes posted rows *)
(* and the running balance).                                               *)

\* the account rows the API can leave before the lifecycle manager is used:
\* the defaults, overdraft enabled with a lowered daily limit
\* (PATCH /sandbox/account/:id/settings), or frozen (POST .../freeze)
Profiles ==
    {[dailyLimit |-> 500000, overdraftEnabled |-> FALSE, frozen |-> FALSE],
     [dailyLimit |-> 200000, overdraftEnabled |-> TRUE, frozen |-> FALSE],
     [dailyLimit |-> 500000, overdraftEnabled |-> FALSE, frozen |-> TRUE]}

InitialAccounts(profile) ==
    [a \in Accounts |->
        [balance |-> 100000,
         dailySpent |-> 0,
         dailySpentDate |-> NoDate,
         dailyLimit |-> profile.dailyLimit,
         frozen |-> profile.frozen,
         overdraftEnabled |-> profile.overdraftEnabled]]

OpeningTxn(a) ==
    [accountId |-> a, type |-> "credit", amount |-> 100000,
     authorizedAmount |-> 100000, status |-> "posted", postAt |-> NoPostAt]

InitialTxns == <<OpeningTxn("a1")>>

----------------------------------------------------------------------------
(* validateTransaction *)

\* if (!account.dailySpentDate || new Date(account.dailySpentDate) < today)
NeedsDailyReset(account) ==
    \/ account.dailySpentDate = NoDate
    \/ account.dailySpentDate < DayStart(now)

\* the account row after validateTransaction's writes: the daily counter is
\* reset when a debit is validated on a new day
ValidatedAccount(account, type) ==
    IF ~account.frozen /\ type = "debit" /\ NeedsDailyReset(account)
    THEN [account EXCEPT !.dailySpent = 0, !.dailySpentDate = DayStart(now)]
    ELSE account

\* balance the debit is checked against
EffectiveBalance(account) ==
    IF account.overdraftEnabled
    THEN account.balance + MaxOverdraftAmount
    ELSE account.balance

\* variant: the funds are checked before the daily limit
validateTransaction_FundsFirst(account, type, amount) ==
    IF account.frozen THEN "ACCOUNT_FROZEN"
    ELSE IF type = "debit"
         THEN IF amount > EffectiveBalance(account)
              THEN "INSUFFICIENT_FUNDS"
              ELSE IF ValidatedAccount(account, type).dailySpent + amount
                        > account.dailyLimit
                   THEN "DAILY_LIMIT_EXCEEDED"
                   ELSE "VALID"
         ELSE "VALID"

\* the code validateTransaction returns, "VALID" for { valid: true }
validateTransaction(account, type, amount) ==
    IF account.frozen THEN "ACCOUNT_FROZEN"
    ELSE IF type = "debit"
         THEN IF ValidatedAccount(account, type).dailySpent + amount > account.dailyLimit
              THEN "DAILY_LIMIT_EXCEEDED"
              ELSE IF amount > EffectiveBalance(account)
                   THEN "INSUFFICIENT_FUNDS"
                   ELSE "VALID"
         ELSE "VALID"

----------------------------------------------------------------------------
(* createTransaction *)

\* the code createTransaction returns for an existing account
CreateCode(account, type, amount, skip) ==
    IF skip THEN "VALID" ELSE validateTransaction(account, type, amount)

\* variant: the hold ignores the transaction type
HoldChange_Unsigned(type, amount) == amount

\* balanceChange of the hold placed at creation
HoldChange(type, amount) == Signed(type, amount)

\* variant: the daily counter is kept but no hold is placed
AccountAfterCreate_NoHold(account, type, amount, skip) ==
    LET validated == IF skip THEN account ELSE ValidatedAccount(account, type)
    IN  IF type = "debit" /\ ~skip
        THEN [validated EXCEPT !.dailySpent = @ + amount,
                               !.dailySpentDate = DayStart(now)]
        ELSE validated

\* the account row after a successful createTransaction
AccountAfterCreate(account, type, amount, skip) ==
    LET validated == IF skip THEN account ELSE ValidatedAccount(account, type)
        counted   == IF type = "debit" /\ ~skip
                     THEN [validated EXCEPT !.dailySpent = @ + amount,
                                            !.dailySpentDate = DayStart(now)]
                     ELSE validated
    IN  [counted EXCEPT !.balance = @ + HoldChange(type, amount)]

NewTxn(a, type, amount) ==
    [accountId |-> a, type |-> type, amount |-> amount, authorizedAmount |-> amount,
     status |-> "pending", postAt |-> now + PendingDuration]

\* the rows a call reads and writes, and the code it returns
Store(acc, tx, code) == [accounts |-> acc, txns |-> tx, code |-> code]

\* the rows as they are now
CurrentStore == [accounts |-> accounts, txns |-> txns]

\* createTransaction as a function of the store st = [accounts, txns]:
\* the store it leaves and its code
createTransaction(st, a, type, amount, skip) ==
    IF a \notin Accounts
    THEN Store(st.accounts, st.txns, "ACCOUNT_NOT_FOUND")
    ELSE LET code == CreateCode(st.accounts[a], type, amount, skip) IN
         IF code # "VALID"
         THEN Store([st.accounts EXCEPT ![a] = ValidatedAccount(@, type)],
                    st.txns, code)
         ELSE Store([st.accounts EXCEPT
                        ![a] = AccountAfterCreate(@, type, amount, skip)],
                    Append(st.txns, NewTxn(a, type, amount)),
                    "OK")

CreateTransaction(a, type, amount, skip) ==
    LET r == createTransaction(CurrentStore, a, type, amount, skip) IN
    /\ Len(r.txns) <= MaxTxns
    /\ accounts' = r.accounts
    /\ txns' = r.txns
    /\ result' = r.code
    /\ UNCHANGED now

----------------------------------------------------------------------------
(* postTransaction and cancelTransaction as functions of the store         *)
(* st = [accounts, txns]; each returns the store it leaves and its code    *)

\* amountDifference = finalAmount !== undefined ? finalAmount - transaction.amount : 0
AmountDifference(txn, finalAmount) ==
    IF finalAmount # NoAmount THEN finalAmount - txn.amount ELSE 0

\* balanceChange applied by postTransaction
PostBalanceChange(txn, finalAmount) ==
    Signed(txn.type, AmountDifference(txn, finalAmount))

\* variant: the held amount stays recorded
PostedAmount_Held(txn, finalAmount) == txn.amount

\* finalAmount ?? transaction.amount
PostedAmount(txn, finalAmount) ==
    IF finalAmount # NoAmount THEN finalAmount ELSE txn.amount

\* variant: no status check before a post
PostAllowed_AnyStatus(txn) == TRUE

\* if (transaction.status !== "pending") return INVALID_STATUS
PostAllowed(txn) == txn.status = "pending"

postTransaction(st, id, finalAmount) ==
    IF id \notin DOMAIN st.txns
    THEN Store(st.accounts, st.txns, "TRANSACTION_NOT_FOUND")
    ELSE LET txn == st.txns[id] IN
         IF ~PostAllowed(txn)
         THEN Store(st.accounts, st.txns, "INVALID_STATUS")
         ELSE Store([st.accounts EXCEPT ![txn.accountId].balance =
                        @ + PostBalanceChange(txn, finalAmount)],
                    [st.txns EXCEPT ![id].status = "posted",
                                    ![id].amount = PostedAmount(txn, finalAmount)],
                    "OK")

\* variant: the hold is applied again instead of reversed
CancelBalanceChange_Repeated(txn) == Signed(txn.type, txn.amount)

\* balanceChange applied by cancelTransaction: the reverse of the hold
CancelBalanceChange(txn) == Signed(txn.type, -txn.amount)

\* variant: only posted transactions are refused
CancelAllowed_NotPosted(txn) == txn.status # "posted"

\* if (transaction.status !== "pending") return INVALID_STATUS
CancelAllowed(txn) == txn.status = "pending"

cancelTransaction(st, id) ==
    IF id \notin DOMAIN st.txns
    THEN Store(st.accounts, st.txns, "TRANSACTION_NOT_FOUND")
    ELSE LET txn == st.txns[id] IN
         IF ~CancelAllowed(txn)
         THEN Store(st.accounts, st.txns, "INVALID_STATUS")
         ELSE Store([st.accounts EXCEPT ![txn.accountId].balance =
                        @ + CancelBalanceChange(txn)],
                    [st.txns EXCEPT ![id].status = "canceled"],
                    "OK")

\* the finalAmount values a caller may pass for transaction id: none, the
\* held amount, or the held amount changed by one of ChangePercents
FinalAmounts(id) ==
    {NoAmount} \cup
    (IF id \in DOMAIN txns
     THEN {txns[id].amount} \cup
          {RoundDiv(txns[id].amount * (100 + p), 100) : p \in ChangePercents}
     ELSE {})

\* the finalAmount values the calls of Next pass: postTransaction reads
\* finalAmount only after its status check, so for a row that is not pending
\* one value stands for all
PostArguments(id) ==
    IF id \in DOMAIN txns /\ txns[id].status = "pending"
    THEN FinalAmounts(id)
    ELSE {NoAmount}

PostTransaction(id, finalAmount) ==
    LET r == postTransaction(CurrentStore, id, finalAmount) IN
    /\ accounts' = r.accounts
    /\ txns' = r.txns
    /\ result' = r.code
    /\ UNCHANGED now

CancelTransaction(id) ==
    LET r == cancelTransaction(CurrentStore, id) IN
    /\ accounts' = r.accounts
    /\ txns' = r.txns
    /\ result' = r.code
    /\ UNCHANGED now

----------------------------------------------------------------------------
(* processPendingTransactions *)

\* variant: the batch selects every pending row
IsDue_AnyPending(txn) == txn.status = "pending"

\* where: { status: "pending", postAt: { lte: new Date() } }
IsDue(txn) == txn.status = "pending" /\ txn.postAt # NoPostAt /\ txn.postAt <= now

DueIds(tx) == {i \in DOMAIN tx : IsDue(tx[i])}

\* what the three rng.next() rolls decide for one transaction
Decisions ==
    {[kind |-> "cancel", pct |-> 0], [kind |-> "post", pct |-> 0]}
    \cup {[kind |-> "change", pct |-> p] : p \in ChangePercents}

\* Math.max(100, Math.round(transaction.amount * (1 + changePercent)))
ChangedAmount(amount, pct) ==
    Max(MinFinalAmount, RoundDiv(amount * (100 + pct), 100))

\* one iteration of the for loop
ProcessOne(st, id, d) ==
    IF d.kind = "cancel"
    THEN cancelTransaction(st, id)
    ELSE postTransaction(st, id,
            IF d.kind = "change"
            THEN ChangedAmount(st.txns[id].amount, d.pct)
            ELSE NoAmount)

\* the loop over the rows findMany returned, smallest id first
RECURSIVE ProcessAll(_, _, _)
ProcessAll(st, ids, decide) ==
    IF ids = {} THEN st
    ELSE LET id == CHOOSE i \in ids : \A j \in ids : i <= j IN
         ProcessAll(ProcessOne(st, id, decide[id]), ids \ {id}, decide)

\* the rows the batch selects
BatchIds == DueIds(txns)

\* processPendingTransactions as a function of the store
processPendingTransactions(st, decide) ==
    ProcessAll(Store(st.accounts, st.txns, "OK"), DueIds(st.txns), decide)

ProcessPendingTransactions(decide) ==
    LET r == processPendingTransactions(CurrentStore, decide)
    IN  /\ accounts' = r.accounts
        /\ txns' = r.txns
        /\ result' = "COUNTS"   \* { posted, canceled, amountChanged }: no code
        /\ UNCHANGED now

----------------------------------------------------------------------------
(* The environment of the lifecycle manager *)

\* time passes
Tick ==
    /\ now < MaxTime
    /\ now' = now + 1
    /\ UNCHANGED <<accounts, txns, result>>

----------------------------------------------------------------------------
(* Spec: the lifecycle operations called one after the other *)

InitLifecycle ==
    /\ \E profile \in Profiles : accounts = InitialAccounts(profile)
    /\ txns = InitialTxns
    /\ now = 0
    /\ result = "none"

InitSched ==
    /\ isRunning = FALSE
    /\ simulationTimer = NoTimer
    /\ liveTimers = {}
    /\ timersMade = 0
    /\ stateIsRunning = FALSE
    /\ cycles = <<>>
    /\ stopped = FALSE

\* the accounts of the cycle's store, in the order findMany returns them;
\* both belong to one user
AccountOrder == <<"a1", "a2">>

CycleAccounts == {AccountOrder[k] : k \in DOMAIN AccountOrder}

\* the calendar days the clock goes through
Days == 0..MaxDay

\* runSimulationCycle was never called
IdleCycle ==
    [pc |-> "idle", batch |-> <<>>, i |-> 0, tried |-> 0, made |-> 0, processed |-> {}]

InitCycle ==
    /\ frozenAccounts = {}
    /\ inserted = [a \in CycleAccounts |-> 0]
    /\ today = 0
    /\ lastDayProcessed = NoDay
    /\ dailyRuns = [d \in Days |-> 0]
    /\ cycle = IdleCycle

\* checkForRandomEvents was never called
NoRandomEvents == [pc |-> "idle", fraudEventActive |-> FALSE, marketCrashActive |-> FALSE]

InitEvents ==
    /\ fraudEventActive = FALSE
    /\ marketCrashActive = FALSE
    /\ marketHours = FALSE
    /\ randomEvents = NoRandomEvents
    /\ injected = {}

\* the two cycles that are compared
Runs == {1, 2}

\* a cycle that was not started
IdleRun == [pc |-> "idle"]

InitDet == runs = [r \in Runs |-> IdleRun]

\* no Loan row
NoLoan ==
    [status |-> "none", principalAmount |-> 0, remainingAmount |-> 0,
     interestRate |-> 0, monthlyPayment |-> 0, termMonths |-> 0,
     paymentsMissed |-> 0, paymentsMade |-> 0]

\* LoanSpec starts before the user applied for a loan
InitLoans ==
    /\ loan = NoLoan
    /\ loanBalance = 0
    /\ loanResult = <<"none", FALSE>>
    /\ missedInRow = 0
    /\ defaultedBy = "none"

\* the users and accounts of FraudSpec: u1 owns f1 and f2, u2 owns f3
FraudUsers == {"u1", "u2"}

FraudAccountOwner == [f1 |-> "u1", f2 |-> "u1", f3 |-> "u2"]

FraudAccounts == DOMAIN FraudAccountOwner

\* the order in which findMany returns the accounts
FraudAccountOrder == <<"f1", "f2", "f3">>

\* FraudSeverity
FraudSeverities == {"low", "medium", "high", "critical"}

\* freezeAccount without an alertId
NoAlert == 0

\* no account is frozen and there is no alert
InitFraud ==
    /\ accountFrozen = [a \in FraudAccounts |-> FALSE]
    /\ fraudAlerts = <<>>
    /\ frozenBefore = [a \in FraudAccounts |-> FALSE]
    /\ alertJustCreated = FALSE

\* MarketAsset.change and the rates applied to prices are kept in units of
\* 1 / ChangeScale
ChangeScale == 10000

\* DEFAULT_ASSETS, two of them: type, price in cents, daily volatility
DEFAULT_ASSETS ==
    [DOGE  |-> [type |-> "crypto", price |-> 15, volatility |-> 1200],
     TBILL |-> [type |-> "bond", price |-> 10000, volatility |-> 10]]

AssetSymbols == DOMAIN DEFAULT_ASSETS

\* initializeMarketAssets: the seeded rows, change 0
InitMarket ==
    /\ marketAssets = [s \in AssetSymbols |->
                          [price |-> DEFAULT_ASSETS[s].price, change |-> 0]]
    /\ marketSteps = 0

\* a SeededRandom that was not constructed yet
NoInstance == [pc |-> "idle", seed |-> <<>>, state |-> <<0, 0>>, calls |-> <<>>,
               results |-> <<>>]

InitRng == instances = [i \in Runs |-> NoInstance]

\* The chaos settings of DEFAULT_SIMULATION_CONFIG, which parseSimulationConfig
\* copies and no environment variable overrides.
DEFAULT_CHAOS_CONFIG == [chaosMode |-> "normal", latencyMs |-> 0, failureRate |-> 0]

\* No request has been served yet.
NoRequest ==
    [url |-> <<>>, method |-> "none", modeBefore |-> "normal", kind |-> "passed",
     status |-> 0, delay |-> 0, resetFrom |-> "none"]

\* The SimulationState singleton row does not exist.
NoRow == [exists |-> FALSE, currentMode |-> "normal"]

InitChaos ==
    /\ chaosConfig = DEFAULT_CHAOS_CONFIG
    /\ failuresInjected = 0
    /\ lastRequest = NoRequest
    /\ stateRow = NoRow

\* No lifecycle call has been made on the failing store yet.
NoFault ==
    [op |-> "none", call |-> "none", failed |-> FALSE, id |-> 0,
     balanceBefore |-> 0, change |-> 0, faulted |-> FALSE]

InitFault == fault = NoFault

\* No lifecycle call is in flight.
IdleCall == [pc |-> "idle"]

InitRace == race = [p \in Runs |-> IdleCall]

\* No cycle has run on the current day.
NoPayroll == [cycles |-> 0, credits |-> [a \in CycleAccounts |-> 0]]

InitPayroll == payroll = NoPayroll

InitEngines == InitCycle /\ InitEvents /\ InitDet /\ InitLoans /\ InitFraud /\ InitMarket /\ InitRng /\ InitChaos /\ InitFault /\ InitRace /\ InitPayroll

Init == InitLifecycle /\ InitSched /\ InitEngines

Next ==
    \/ /\ \E a \in Accounts, o \in CreateOptions :
            CreateTransaction(a, o.type, o.amount, o.skip)
       /\ UNCHANGED <<schedVars, engineVars>>
    \/ /\ \E a \in AccountIds \ Accounts : CreateTransaction(a, "debit", 30000, FALSE)
       /\ UNCHANGED <<schedVars, engineVars>>
    \/ /\ \E id \in TxnIds : \E f \in PostArguments(id) : PostTransaction(id, f)
       /\ UNCHANGED <<schedVars, engineVars>>
    \/ /\ \E id \in TxnIds : CancelTransaction(id)
       /\ UNCHANGED <<schedVars, engineVars>>
    \/ /\ \E decide \in [BatchIds -> Decisions] : ProcessPendingTransactions(decide)
       /\ UNCHANGED <<schedVars, engineVars>>
    \/ /\ Tick
       /\ UNCHANGED <<schedVars, engineVars>>

Spec == Init /\ [][Next]_vars

\* the same lifecycle calls, as the specification of the claims about holds,
\* posting amounts and the pending batch
LifecycleSpec == Init /\ [][Next]_vars

----------------------------------------------------------------------------
(* SchedSpec: the scheduler of simulationEngine.ts.  A cycle is followed   *)
(* through its writes of SimulationState.isRunning; what the cycle does to *)
(* accounts and transactions in between is the lifecycle manager's part    *)
(* (Spec) and is one step here, which returns or throws.                   *)
(*                                                                         *)
(* pc of a cycle: "markRunning"  awaiting updateSimulationState({isRunning: *)
(*                               true}), before the try block              *)
(*                "body"         inside the try block                      *)
(*                "finish"       awaiting the try block's last write,      *)
(*                               updateSimulationState({..., isRunning:    *)
(*                               false})                                   *)
(*                "catch"        in the catch block, awaiting              *)
(*                               updateSimulationState({isRunning: false}) *)
(*                "returned", "threw"   back in the caller                 *)

Origins == {"start", "timer", "manual"}

\* the sequence without its i-th element
RemoveAt(seq, i) == [j \in 1..(Len(seq) - 1) |-> IF j < i THEN seq[j] ELSE seq[j + 1]]

\* a call of runSimulationCycle, up to its first await
EnterCycle(origin) ==
    /\ Len(cycles) < MaxCycles
    /\ cycles' = Append(cycles, [origin |-> origin, pc |-> "markRunning"])

\* startSimulation, up to `await runSimulationCycle()`
StartSimulation ==
    /\ stopped' = FALSE
    /\ IF isRunning
       THEN UNCHANGED <<isRunning, cycles>>
       ELSE /\ isRunning' = TRUE
            /\ EnterCycle("start")
    /\ UNCHANGED <<simulationTimer, liveTimers, timersMade, stateIsRunning>>

\* await updateSimulationState({ isRunning: true }): outside the try block
CycleMarkRunning(c, ok) ==
    /\ cycles[c].pc = "markRunning"
    /\ IF ok
       THEN /\ stateIsRunning' = TRUE
            /\ cycles' = [cycles EXCEPT ![c].pc = "body"]
       ELSE /\ cycles' = [cycles EXCEPT ![c].pc = "threw"]
            /\ UNCHANGED stateIsRunning
    /\ UNCHANGED <<isRunning, simulationTimer, liveTimers, timersMade, stopped>>

\* the work of the try block, which ends or throws
CycleBody(c, ok) ==
    /\ cycles[c].pc = "body"
    /\ cycles' = [cycles EXCEPT ![c].pc = IF ok THEN "finish" ELSE "catch"]
    /\ UNCHANGED <<isRunning, simulationTimer, liveTimers, timersMade,
                   stateIsRunning, stopped>>

\* await updateSimulationState({ lastRunAt, transactionsToday, isRunning: false })
CycleFinish(c, ok) ==
    /\ cycles[c].pc = "finish"
    /\ IF ok
       THEN /\ stateIsRunning' = FALSE
            /\ cycles' = [cycles EXCEPT ![c].pc = "returned"]
       ELSE /\ cycles' = [cycles EXCEPT ![c].pc = "catch"]
            /\ UNCHANGED stateIsRunning
    /\ UNCHANGED <<isRunning, simulationTimer, liveTimers, timersMade, stopped>>

\* what the catch block's write leaves in SimulationState.isRunning
FlagAfterCatch(ok) == IF ok THEN FALSE ELSE stateIsRunning

\* catch (error) { await updateSimulationState({ isRunning: false }); throw error; }
CycleCatch(c, ok) ==
    /\ cycles[c].pc = "catch"
    /\ stateIsRunning' = FlagAfterCatch(ok)
    /\ cycles' = [cycles EXCEPT ![c].pc = "threw"]
    /\ UNCHANGED <<isRunning, simulationTimer, liveTimers, timersMade, stopped>>

\* startSimulation after its initial cycle: setInterval when the cycle
\* returned; when it threw, the exception leaves startSimulation
StartResume(c) ==
    /\ cycles[c].origin = "start"
    /\ cycles[c].pc \in {"returned", "threw"}
    /\ IF cycles[c].pc = "returned"
       THEN /\ timersMade < MaxTimers
            /\ timersMade' = timersMade + 1
            /\ simulationTimer' = timersMade + 1
            /\ liveTimers' = liveTimers \cup {timersMade + 1}
       ELSE UNCHANGED <<timersMade, simulationTimer, liveTimers>>
    /\ cycles' = RemoveAt(cycles, c)
    /\ UNCHANGED <<isRunning, stateIsRunning, stopped>>

\* the interval fires: the callback calls runSimulationCycle
TimerTick(t) ==
    /\ t \in liveTimers
    /\ EnterCycle("timer")
    /\ UNCHANGED <<isRunning, simulationTimer, liveTimers, timersMade,
                   stateIsRunning, stopped>>

\* the interval's callback after its cycle: a thrown error is logged
TimerCallbackEnd(c) ==
    /\ cycles[c].origin = "timer"
    /\ cycles[c].pc \in {"returned", "threw"}
    /\ cycles' = RemoveAt(cycles, c)
    /\ UNCHANGED <<isRunning, simulationTimer, liveTimers, timersMade,
                   stateIsRunning, stopped>>

\* triggerSimulationCycle, up to the cycle's first await
TriggerSimulationCycle ==
    /\ EnterCycle("manual")
    /\ UNCHANGED <<isRunning, simulationTimer, liveTimers, timersMade,
                   stateIsRunning, stopped>>

\* triggerSimulationCycle hands the cycle's result or error to its caller
TriggerEnd(c) ==
    /\ cycles[c].origin = "manual"
    /\ cycles[c].pc \in {"returned", "threw"}
    /\ cycles' = RemoveAt(cycles, c)
    /\ UNCHANGED <<isRunning, simulationTimer, liveTimers, timersMade,
                   stateIsRunning, stopped>>

\* the intervals left after clearInterval(simulationTimer)
TimersAfterStop == liveTimers \ {simulationTimer}

stopSimulation ==
    /\ liveTimers' = TimersAfterStop
    /\ simulationTimer' = NoTimer
    /\ isRunning' = FALSE
    /\ stopped' = TRUE
    /\ UNCHANGED <<timersMade, stateIsRunning, cycles>>

SchedNext ==
    \/ StartSimulation /\ UNCHANGED <<lifecycleVars, engineVars>>
    \/ stopSimulation /\ UNCHANGED <<lifecycleVars, engineVars>>
    \/ TriggerSimulationCycle /\ UNCHANGED <<lifecycleVars, engineVars>>
    \/ (\E t \in liveTimers : TimerTick(t))
         /\ UNCHANGED <<lifecycleVars, engineVars>>
    \/ (\E c \in DOMAIN cycles, ok \in BOOLEAN : CycleMarkRunning(c, ok))
         /\ UNCHANGED <<lifecycleVars, engineVars>>
    \/ (\E c \in DOMAIN cycles, ok \in BOOLEAN : CycleBody(c, ok))
         /\ UNCHANGED <<lifecycleVars, engineVars>>
    \/ (\E c \in DOMAIN cycles, ok \in BOOLEAN : CycleFinish(c, ok))
         /\ UNCHANGED <<lifecycleVars, engineVars>>
    \/ (\E c \in DOMAIN cycles, ok \in BOOLEAN : CycleCatch(c, ok))
         /\ UNCHANGED <<lifecycleVars, engineVars>>
    \/ (\E c \in DOMAIN cycles : StartResume(c))
         /\ UNCHANGED <<lifecycleVars, engineVars>>
    \/ (\E c \in DOMAIN cycles : TimerCallbackEnd(c))
         /\ UNCHANGED <<lifecycleVars, engineVars>>
    \/ (\E c \in DOMAIN cycles : TriggerEnd(c))
         /\ UNCHANGED <<lifecycleVars, engineVars>>

SchedSpec == Init /\ [][SchedNext]_vars

----------------------------------------------------------------------------
(* Claims about the lifecycle manager, checked under Spec *)

\* signed amount a transaction contributes to its account balance
Contribution(txn) ==
    IF txn.status \in {"posted", "pending"} THEN Signed(txn.type, txn.amount) ELSE 0

RECURSIVE SumContributions(_, _, _)
SumContributions(tx, a, i) ==
    IF i = 0 THEN 0
    ELSE SumContributions(tx, a, i - 1)
         + (IF tx[i].accountId = a THEN Contribution(tx[i]) ELSE 0)

\* C1: after every createTransaction, postTransaction and cancelTransaction
\* (and every batch of them), each account's balance is the sum of the signed
\* amounts of its posted transactions plus that of its pending transactions.
C1_BalanceIsPostedPlusPending ==
    \A a \in Accounts : accounts[a].balance = SumContributions(txns, a, Len(txns))

\* a hold was canceled and another was posted with a changed amount
C1_Witness ==
    \E i, j \in DOMAIN txns :
        /\ txns[i].status = "canceled"
        /\ txns[j].status = "posted"
        /\ txns[j].amount # txns[j].authorizedAmount

\* C2: a transaction that is posted or canceled never changes status again, so
\* a status changes at most once, from pending to posted or to canceled.
C2_TerminalStatusIsFinal ==
    [][\A i \in DOMAIN txns :
          /\ i \in DOMAIN txns'
          /\ txns[i].status # "pending" => txns'[i].status = txns[i].status
          /\ txns'[i].status \in {"pending", "posted", "canceled"}]_vars

\* a post or cancel was tried on a transaction that is posted already
C2_Witness ==
    /\ result = "INVALID_STATUS"
    /\ \E i \in DOMAIN txns : i > 1 /\ txns[i].status = "posted"

\* C3: in every reachable store, postTransaction (with any finalAmount) or
\* cancelTransaction on a transaction that is already posted or canceled
\* returns INVALID_STATUS and leaves every account and transaction as it was;
\* a second cancel does not reverse the hold again.
C3_SettledIsRejected ==
    \A id \in DOMAIN txns :
        txns[id].status \in {"posted", "canceled"}
        => /\ cancelTransaction(CurrentStore, id)
                = Store(accounts, txns, "INVALID_STATUS")
           /\ \A f \in FinalAmounts(id) :
                postTransaction(CurrentStore, id, f)
                    = Store(accounts, txns, "INVALID_STATUS")

\* a cancel or post was rejected while a canceled transaction exists
C3_Witness ==
    /\ result = "INVALID_STATUS"
    /\ \E i \in DOMAIN txns : txns[i].status = "canceled"

\* the day's spending validateTransaction compares with the limit: the counter,
\* which starts from zero on a new day
C4_SpentToday(account) ==
    IF account.dailySpentDate = NoDate \/ account.dailySpentDate < DayStart(now)
    THEN 0 ELSE account.dailySpent

C4_Allowance(account) == IF account.overdraftEnabled THEN MaxOverdraftAmount ELSE 0

\* the rejection the claim states for a validated create, "OK" when it states none
C4_Rejection(account, type, amount) ==
    IF account.frozen THEN "ACCOUNT_FROZEN"
    ELSE IF type = "debit" /\ C4_SpentToday(account) + amount > account.dailyLimit
         THEN "DAILY_LIMIT_EXCEEDED"
    ELSE IF type = "debit" /\ amount > account.balance + C4_Allowance(account)
         THEN "INSUFFICIENT_FUNDS"
    ELSE "OK"

C4_Rejections == {"ACCOUNT_FROZEN", "DAILY_LIMIT_EXCEEDED", "INSUFFICIENT_FUNDS"}

\* C4: in every reachable store, a validated createTransaction is rejected
\* with ACCOUNT_FROZEN on a frozen account, otherwise (debit) with
\* DAILY_LIMIT_EXCEEDED when the day's spending plus the amount exceeds the
\* daily limit, otherwise (debit) with INSUFFICIENT_FUNDS when the amount
\* exceeds balance plus overdraft allowance; a rejected create adds no
\* transaction and leaves the balance unchanged.
C4_ValidationRejects ==
    \A a \in Accounts, type \in Types : \A amount \in Amounts(type) :
        LET r == createTransaction(CurrentStore, a, type, amount, FALSE)
            stated == C4_Rejection(accounts[a], type, amount)
        IN  /\ stated # "OK" => r.code = stated
            /\ r.code \in C4_Rejections
                 => /\ r.txns = txns
                    /\ r.accounts[a].balance = accounts[a].balance

\* a debit was refused for the daily limit on an account that could afford it
C4_Witness ==
    /\ result = "DAILY_LIMIT_EXCEEDED"
    /\ \E a \in Accounts : ~accounts[a].frozen /\ accounts[a].dailySpent > 0

\* C5: in every reachable store, a successful createTransaction appends a
\* pending transaction and changes the balance by the signed amount at once,
\* and cancelTransaction of that transaction then succeeds, marks it canceled
\* and returns the balance exactly to its value before the create.
C5_HoldPlacedAndReversed ==
    \A a \in Accounts, type \in Types, skip \in BOOLEAN :
        \A amount \in Amounts(type) :
            LET created == createTransaction(CurrentStore, a, type, amount, skip)
                id == Len(txns) + 1
                canceled == cancelTransaction(created, id)
            IN  created.code = "OK"
                => /\ DOMAIN created.txns = 1..id
                   /\ created.txns[id].status = "pending"
                   /\ created.txns[id].amount = amount
                   /\ created.accounts[a].balance =
                        accounts[a].balance
                        + (IF type = "credit" THEN amount ELSE -amount)
                   /\ canceled.code = "OK"
                   /\ canceled.txns[id].status = "canceled"
                   /\ canceled.accounts[a].balance = accounts[a].balance

\* a hold on a debit was reversed: the balance is the opening balance again
C5_Witness ==
    /\ Len(txns) = 2
    /\ txns[2].status = "canceled"
    /\ txns[2].type = "debit"
    /\ accounts[txns[2].accountId].balance = txns[1].amount

\* the amount the claim says a post records
C6_Final(txn, f) == IF f = NoAmount THEN txn.amount ELSE f

\* C6: in every reachable store, postTransaction(id, finalAmount) on a pending
\* transaction succeeds, changes the balance by the signed difference between
\* finalAmount and the held amount (by nothing when finalAmount is omitted or
\* equal), records finalAmount as the amount and marks the transaction posted.
C6_PostAdjustsByDifference ==
    \A id \in DOMAIN txns : \A f \in FinalAmounts(id) :
        LET txn == txns[id]
            r == postTransaction(CurrentStore, id, f)
        IN  txn.status = "pending"
            => /\ r.code = "OK"
               /\ r.txns[id].status = "posted"
               /\ r.txns[id].amount = C6_Final(txn, f)
               /\ r.accounts[txn.accountId].balance =
                    accounts[txn.accountId].balance
                    + (IF txn.type = "credit"
                       THEN C6_Final(txn, f) - txn.amount
                       ELSE txn.amount - C6_Final(txn, f))

\* a debit was posted for less than was held, and the difference came back
C6_Witness ==
    /\ Len(txns) = 2
    /\ txns[2].status = "posted"
    /\ txns[2].type = "debit"
    /\ txns[2].amount < txns[2].authorizedAmount
    /\ accounts[txns[2].accountId].balance = txns[1].amount - txns[2].amount

\* pending with postAt reached when the batch starts
C7_DueAtStart(txn) == txn.status = "pending" /\ txn.postAt # NoPostAt /\ txn.postAt <= now

\* C7: in every reachable store and for every outcome of the random rolls,
\* when processPendingTransactions returns, every transaction that was
\* pending with postAt <= now at its start is posted or canceled, and no other
\* transaction has changed; the balance moved only by what the due ones
\* stopped or changed contributing.
C7_BatchResolvesExactlyTheDue ==
    \A decide \in [BatchIds -> Decisions] :
        LET r == processPendingTransactions(CurrentStore, decide) IN
        /\ DOMAIN r.txns = DOMAIN txns
        /\ \A i \in DOMAIN txns :
              IF C7_DueAtStart(txns[i])
              THEN r.txns[i].status \in {"posted", "canceled"}
              ELSE r.txns[i] = txns[i]
        /\ \A a \in Accounts :
              r.accounts[a].balance - accounts[a].balance =
                  SumContributions(r.txns, a, Len(txns))
                  - SumContributions(txns, a, Len(txns))

\* a batch has run that settled a due transaction and left one whose postAt
\* is still ahead pending
C7_Witness ==
    /\ result = "COUNTS"
    /\ \E i, j \in DOMAIN txns :
        /\ txns[i].status \in {"posted", "canceled"}
        /\ txns[i].postAt # NoPostAt
        /\ txns[i].postAt <= now
        /\ txns[j].status = "pending"
        /\ txns[j].postAt > now

----------------------------------------------------------------------------
(* C8: the scenario on an account with balance 100000, daily limit 500000,  *)
(* not frozen                                                               *)

C8_Account(a, balance) ==
    /\ accounts[a].balance = balance
    /\ accounts[a].dailyLimit = 500000
    /\ ~accounts[a].frozen

C8_Debit(txn, status) ==
    /\ txn.type = "debit"
    /\ txn.amount = 30000
    /\ txn.status = status

\* the steps of the scenario up to the second create
C8_FirstSteps ==
    /\ (/\ Len(txns) = 1
        /\ C8_Account("a1", 100000)
        /\ CreateTransaction("a1", "debit", 30000, FALSE))
       => /\ result' = "OK"
          /\ accounts'["a1"].balance = 70000
          /\ C8_Debit(txns'[2], "pending")
    /\ (/\ Len(txns) = 2
        /\ C8_Account("a1", 70000)
        /\ C8_Debit(txns[2], "pending")
        /\ PostTransaction(2, NoAmount))
       => /\ result' = "OK"
          /\ accounts'["a1"].balance = 70000
          /\ C8_Debit(txns'[2], "posted")
    /\ (/\ Len(txns) = 2
        /\ C8_Account("a1", 70000)
        /\ C8_Debit(txns[2], "posted")
        /\ CreateTransaction("a1", "debit", 30000, FALSE))
       => /\ result' = "OK"
          /\ C8_Debit(txns'[3], "pending")

\* the last step: the second hold is canceled and the balance is `balance`
C8_LastStep(balance) ==
    (/\ Len(txns) = 3
     /\ C8_Account("a1", 40000)
     /\ C8_Debit(txns[2], "posted")
     /\ C8_Debit(txns[3], "pending")
     /\ CancelTransaction(3))
    => /\ result' = "OK"
       /\ txns'[3].status = "canceled"
       /\ accounts'["a1"].balance = balance

\* C8 as stated: create(debit, 30000) leaves 70000 pending, post(id) leaves
\* 70000 posted, create(debit, 30000) again and cancel of it returns the
\* balance to 100000 with status canceled.
C8_ScenarioAsStated == [][C8_FirstSteps /\ C8_LastStep(100000)]_vars

\* C8 amended: the cancel returns the balance to 70000, its value before the
\* second create; the first debit stays posted and stays deducted.
C8_ScenarioAmended == [][C8_FirstSteps /\ C8_LastStep(70000)]_vars

\* the end of the scenario
C8_Witness ==
    /\ Len(txns) = 3
    /\ C8_Account("a1", 70000)
    /\ C8_Debit(txns[2], "posted")
    /\ txns[3].type = "debit"
    /\ txns[3].authorizedAmount = 30000
    /\ txns[3].status = "canceled"
    /\ result = "OK"

----------------------------------------------------------------------------
(* Claims about the scheduler, checked under SchedSpec *)

\* the interval's callback starts a cycle in this step
C9_TimerStartsCycle ==
    /\ Len(cycles') = Len(cycles) + 1
    /\ cycles'[Len(cycles')].origin = "timer"

\* C9: after stopSimulation returns, the scheduler starts no further cycle
\* until startSimulation is called again, and a cycle that was executing when
\* stop was called is left to run.
C9_StopHaltsScheduler ==
    [][/\ stopped => ~C9_TimerStartsCycle
       /\ (~stopped /\ stopped') => cycles' = cycles]_vars

\* C10: if an exception escapes runSimulationCycle (thrown inside its try
\* block and rethrown by the catch block), the persisted isRunning flag is
\* false when the caller gets the exception; when the caller is the recurring
\* timer, its callback ends with the interval still scheduled, so the next
\* tick runs a cycle.
C10_FailedCycleMarksNotRunning ==
    [][/\ \A c \in DOMAIN cycles :
            (/\ cycles[c].pc = "catch"
             /\ Len(cycles') = Len(cycles)
             /\ cycles'[c].pc = "threw")
            => stateIsRunning' = FALSE
       /\ \A c \in DOMAIN cycles :
            (/\ cycles[c].origin = "timer"
             /\ cycles[c].pc = "threw"
             /\ cycles' = RemoveAt(cycles, c))
            => /\ liveTimers' = liveTimers
               /\ simulationTimer' = simulationTimer]_vars


----------------------------------------------------------------------------
(* CycleSpec: the body of runSimulationCycle, one cycle after the other.   *)
(* The cycle selects the accounts that are not frozen, generates and       *)
(* analyzes transactions account by account, resolves the pending          *)
(* transactions and runs the daily batch when the calendar day changed.    *)
(* Store calls may throw.  The API freezes and unfreezes accounts and the  *)
(* clock moves between the cycle's awaits.                                 *)
(*                                                                         *)
(* pc of the cycle: "generate"  in generateAccountTransactions of account  *)
(*                              batch[i]                                   *)
(*                  "validate"  in createTransaction, before the account   *)
(*                              is read                                    *)
(*                  "insert"    in createTransaction, validation passed,   *)
(*                              before the row is created                  *)
(*                  "recent"    before findMany of the account's recent    *)
(*                              transactions                               *)
(*                  "analyze"   before analyzeTransactionForFraudAndRisk   *)
(*                  "pending"   before processPendingTransactions          *)
(*                  "daily"     before the day check                       *)
(*                  "returned", "threw"   the cycle is over                *)

\* the accounts of the user who owns account a
AccountsOfOwner(a) == CycleAccounts

\* the accounts that carry an active loan
LoanAccounts == {"a2"}

\* prisma.account.findMany({ where: { frozen: false } })
UnfrozenAccounts == SelectSeq(AccountOrder, LAMBDA a : a \notin frozenAccounts)

CycleOver == cycle.pc \in {"idle", "returned", "threw"}

\* the account the loop is at
CurrentAccount == cycle.batch[cycle.i]

\* the for loop goes to its next account, or ends
NextAccount ==
    [cycle EXCEPT !.processed = @ \cup {CurrentAccount},
                  !.i = @ + 1,
                  !.tried = 0,
                  !.made = 0,
                  !.pc = IF cycle.i = Len(cycle.batch) THEN "pending" ELSE "generate"]

\* runSimulationCycle up to the loop: the accounts are selected, or findMany throws
BeginCycle(ok) ==
    /\ CycleOver
    /\ cycle' = IF ok
                THEN [pc |-> IF UnfrozenAccounts = <<>> THEN "pending" ELSE "generate",
                      batch |-> UnfrozenAccounts, i |-> 1, tried |-> 0, made |-> 0,
                      processed |-> {}]
                ELSE [IdleCycle EXCEPT !.pc = "threw"]
    /\ inserted' = [a \in CycleAccounts |-> 0]
    /\ UNCHANGED <<frozenAccounts, today, lastDayProcessed, dailyRuns>>

\* generateAccountTransactions: one more createTransaction call, or the
\* function returns transactionsCreated
Generate(more) ==
    /\ cycle.pc = "generate"
    /\ cycle' = IF more /\ cycle.tried < MaxNew
                THEN [cycle EXCEPT !.pc = "validate", !.tried = @ + 1]
                ELSE IF cycle.made > 0
                     THEN [cycle EXCEPT !.pc = "recent"]
                     ELSE NextAccount
    /\ UNCHANGED <<frozenAccounts, inserted, today, lastDayProcessed, dailyRuns>>

\* createTransaction reads the account and validates: a frozen account, a
\* failed validation or a store failure makes it return success: false
CreateValidate(ok) ==
    /\ cycle.pc = "validate"
    /\ cycle' = IF ok /\ CurrentAccount \notin frozenAccounts
                THEN [cycle EXCEPT !.pc = "insert"]
                ELSE [cycle EXCEPT !.pc = "generate"]
    /\ UNCHANGED <<frozenAccounts, inserted, today, lastDayProcessed, dailyRuns>>

\* createTransaction inserts the row; a store failure is caught inside
CreateInsert(ok) ==
    /\ cycle.pc = "insert"
    /\ IF ok
       THEN /\ inserted' = [inserted EXCEPT ![CurrentAccount] = @ + 1]
            /\ cycle' = [cycle EXCEPT !.pc = "generate", !.made = @ + 1]
       ELSE /\ inserted' = inserted
            /\ cycle' = [cycle EXCEPT !.pc = "generate"]
    /\ UNCHANGED <<frozenAccounts, today, lastDayProcessed, dailyRuns>>

\* prisma.transaction.findMany of the generated rows: no try block around it
Recent(ok) ==
    /\ cycle.pc = "recent"
    /\ cycle' = [cycle EXCEPT !.pc = IF ok THEN "analyze" ELSE "threw"]
    /\ UNCHANGED <<frozenAccounts, inserted, today, lastDayProcessed, dailyRuns>>

\* analyzeTransactionForFraudAndRisk of the generated rows: its failures are
\* caught inside; a critical alert freezes the accounts of the user
Analyze(critical) ==
    /\ cycle.pc = "analyze"
    /\ frozenAccounts' = IF critical
                         THEN frozenAccounts \cup AccountsOfOwner(CurrentAccount)
                         ELSE frozenAccounts
    /\ cycle' = NextAccount
    /\ UNCHANGED <<inserted, today, lastDayProcessed, dailyRuns>>

\* processPendingTransactions: its findMany is outside its try blocks
Pending(ok) ==
    /\ cycle.pc = "pending"
    /\ cycle' = [cycle EXCEPT !.pc = IF ok THEN "daily" ELSE "threw"]
    /\ UNCHANGED <<frozenAccounts, inserted, today, lastDayProcessed, dailyRuns>>

\* lastDayProcessed after the daily batch
LastDayAfterBatch_Kept == lastDayProcessed

LastDayAfterBatch == today

\* processLoanPayments inside the daily batch: processLoanPayment inserts a
\* posted debit row for every due loan whose account covers the payment
InsertedAfterBatch(paid) ==
    [a \in CycleAccounts |-> IF a \in paid THEN inserted[a] + 1 ELSE inserted[a]]

\* the day check: processDailyBankingTasks runs when the day differs from
\* lastDayProcessed; then the cycle returns
Daily(paid) ==
    /\ cycle.pc = "daily"
    /\ IF today # lastDayProcessed
       THEN /\ dailyRuns[today] < MaxDailyRuns
            /\ dailyRuns' = [dailyRuns EXCEPT ![today] = @ + 1]
            /\ inserted' = InsertedAfterBatch(paid)
            /\ lastDayProcessed' = LastDayAfterBatch
       ELSE /\ paid = {}
            /\ UNCHANGED <<dailyRuns, inserted, lastDayProcessed>>
    /\ cycle' = [cycle EXCEPT !.pc = "returned"]
    /\ UNCHANGED <<frozenAccounts, today>>

\* startSimulation initializes the day tracker before its first cycle
InitializeTodayTracker ==
    /\ CycleOver
    /\ lastDayProcessed' = today
    /\ UNCHANGED <<frozenAccounts, inserted, today, dailyRuns, cycle>>

\* POST /fraud/accounts/:id/freeze
FreezeAccount(a) ==
    /\ a \notin frozenAccounts
    /\ frozenAccounts' = frozenAccounts \cup {a}
    /\ UNCHANGED <<inserted, today, lastDayProcessed, dailyRuns, cycle>>

\* POST /fraud/accounts/:id/unfreeze
UnfreezeAccount(a) ==
    /\ a \in frozenAccounts
    /\ frozenAccounts' = frozenAccounts \ {a}
    /\ UNCHANGED <<inserted, today, lastDayProcessed, dailyRuns, cycle>>

\* midnight
DayPasses ==
    /\ today < MaxDay
    /\ today' = today + 1
    /\ UNCHANGED <<frozenAccounts, inserted, lastDayProcessed, dailyRuns, cycle>>

\* what CycleSpec leaves alone
cycleFrame == <<lifecycleVars, schedVars, eventVars, detVars, loanVars, fraudVars, marketVars, rngVars, chaosVars, faultVars, raceVars, payrollVars>>

CycleNext ==
    \/ (\E ok \in BOOLEAN : BeginCycle(ok)) /\ UNCHANGED cycleFrame
    \/ (\E more \in BOOLEAN : Generate(more)) /\ UNCHANGED cycleFrame
    \/ (\E ok \in BOOLEAN : CreateValidate(ok)) /\ UNCHANGED cycleFrame
    \/ (\E ok \in BOOLEAN : CreateInsert(ok)) /\ UNCHANGED cycleFrame
    \/ (\E ok \in BOOLEAN : Recent(ok)) /\ UNCHANGED cycleFrame
    \/ (\E critical \in BOOLEAN : Analyze(critical)) /\ UNCHANGED cycleFrame
    \/ (\E ok \in BOOLEAN : Pending(ok)) /\ UNCHANGED cycleFrame
    \/ (\E paid \in SUBSET LoanAccounts : Daily(paid)) /\ UNCHANGED cycleFrame
    \/ InitializeTodayTracker /\ UNCHANGED cycleFrame
    \/ (\E a \in CycleAccounts : FreezeAccount(a)) /\ UNCHANGED cycleFrame
    \/ (\E a \in CycleAccounts : UnfreezeAccount(a)) /\ UNCHANGED cycleFrame
    \/ DayPasses /\ UNCHANGED cycleFrame

\* one profile of the lifecycle manager's account is enough here
QuietInit ==
    /\ Init
    /\ accounts = InitialAccounts([dailyLimit |-> 500000, overdraftEnabled |-> FALSE,
                                   frozen |-> FALSE])

CycleSpec == QuietInit /\ [][CycleNext]_vars

----------------------------------------------------------------------------
(* Claims about the cycle, checked under CycleSpec *)

\* C11: within a cycle an exception raised while processing one account is
\* caught, and every remaining account of the batch is still processed in
\* the same cycle: a cycle that is over has processed its whole batch.
C11_BatchIsProcessedWhole ==
    CycleOver => cycle.processed = {cycle.batch[k] : k \in DOMAIN cycle.batch}

\* C12: the daily batch runs in a cycle exactly when the calendar day
\* differs from lastDayProcessed, and so at most once per calendar day.
C12_DailyBatchOncePerDay ==
    [][/\ (cycle.pc = "daily" /\ cycle'.pc = "returned")
            => (dailyRuns' # dailyRuns <=> today # lastDayProcessed)
       /\ \A d \in Days : dailyRuns'[d] <= 1]_vars

\* two cycles ran on day 0, a third on day 1, and the batch ran on each day
C12_Witness ==
    /\ today = 1
    /\ dailyRuns[0] = 1
    /\ dailyRuns[1] = 1
    /\ cycle.pc = "daily"
    /\ lastDayProcessed = today

\* C13: no cycle creates a transaction on an account that is frozen at the
\* moment of creation.
C13_NoTransactionOnFrozenAccount ==
    [][\A a \in CycleAccounts : inserted'[a] > inserted[a] => a \notin frozenAccounts]_vars

----------------------------------------------------------------------------
(* EventSpec: checkForRandomEvents, the stochastic branch of a cycle, next *)
(* to the sandbox endpoints that trigger a fraud event, a market crash and *)
(* a market recovery.  The branch reads the singleton state once, at its   *)
(* start; the endpoints run between its awaits.                            *)
(*                                                                         *)
(* pc of the branch: "fraudGate"  the state is read, before the fraud roll *)
(*                   "pickUser"   the fraud gate passed, awaiting          *)
(*                                prisma.user.findMany                     *)
(*                   "spikeGate"  before the volatility roll               *)
(*                   "idle"       the branch returned                      *)

\* const state = await getSimulationState()
ReadState ==
    /\ randomEvents.pc = "idle"
    /\ randomEvents' = [pc |-> "fraudGate",
                        fraudEventActive |-> fraudEventActive,
                        marketCrashActive |-> marketCrashActive]
    /\ injected' = {}
    /\ UNCHANGED <<fraudEventActive, marketCrashActive, marketHours>>

\* the gate of the random fraud incident
FraudGateOpen(roll) == roll /\ ~randomEvents.fraudEventActive

\* if (rng.next() < 0.005 && !state.fraudEventActive): roll is the outcome
\* of the comparison with rng.next()
FraudGate(roll) ==
    /\ randomEvents.pc = "fraudGate"
    /\ randomEvents' = [randomEvents EXCEPT
                            !.pc = IF FraudGateOpen(roll) THEN "pickUser" ELSE "spikeGate"]
    /\ UNCHANGED <<fraudEventActive, marketCrashActive, marketHours, injected>>

\* the users are found and createFraudAlert(..., 'high', ...) is called, or
\* no user matches
FraudInject(found) ==
    /\ randomEvents.pc = "pickUser"
    /\ injected' = IF found THEN injected \cup {"fraud"} ELSE injected
    /\ randomEvents' = [randomEvents EXCEPT !.pc = "spikeGate"]
    /\ UNCHANGED <<fraudEventActive, marketCrashActive, marketHours>>

\* the gate of the volatility spike
SpikeGateOpen(roll) == marketHours /\ roll /\ ~randomEvents.marketCrashActive

\* if (hour >= 9 && hour <= 16 && rng.next() < 0.01 && !state.marketCrashActive)
\* updateMarketPrices(seed, 2.0); then the branch returns
SpikeGate(roll) ==
    /\ randomEvents.pc = "spikeGate"
    /\ injected' = IF SpikeGateOpen(roll) THEN injected \cup {"spike"} ELSE injected
    /\ randomEvents' = [randomEvents EXCEPT !.pc = "idle"]
    /\ UNCHANGED <<fraudEventActive, marketCrashActive, marketHours>>

\* POST /sandbox/trigger/fraud-event: triggerFraudEvent's write of the state
TriggerFraudEvent ==
    /\ fraudEventActive' = TRUE
    /\ UNCHANGED <<marketCrashActive, marketHours, randomEvents, injected>>

\* POST /sandbox/trigger/market-crash: triggerMarketCrash's write of the state
TriggerMarketCrash ==
    /\ marketCrashActive' = TRUE
    /\ UNCHANGED <<fraudEventActive, marketHours, randomEvents, injected>>

\* POST /sandbox/trigger/market-recovery: triggerMarketRecovery's write of the state
TriggerMarketRecovery ==
    /\ marketCrashActive' = FALSE
    /\ UNCHANGED <<fraudEventActive, marketHours, randomEvents, injected>>

\* the clock enters or leaves the hours 9..16
HourPasses ==
    /\ marketHours' = ~marketHours
    /\ UNCHANGED <<fraudEventActive, marketCrashActive, randomEvents, injected>>

\* what EventSpec leaves alone
eventFrame == <<lifecycleVars, schedVars, cycleVars, detVars, loanVars, fraudVars, marketVars, rngVars, chaosVars, faultVars, raceVars, payrollVars>>

EventNext ==
    \/ ReadState /\ UNCHANGED eventFrame
    \/ (\E roll \in BOOLEAN : FraudGate(roll)) /\ UNCHANGED eventFrame
    \/ (\E found \in BOOLEAN : FraudInject(found)) /\ UNCHANGED eventFrame
    \/ (\E roll \in BOOLEAN : SpikeGate(roll)) /\ UNCHANGED eventFrame
    \/ TriggerFraudEvent /\ UNCHANGED eventFrame
    \/ TriggerMarketCrash /\ UNCHANGED eventFrame
    \/ TriggerMarketRecovery /\ UNCHANGED eventFrame
    \/ HourPasses /\ UNCHANGED eventFrame

EventSpec == QuietInit /\ [][EventNext]_vars

----------------------------------------------------------------------------
(* Claims about the stochastic branch, checked under EventSpec *)

\* C14: the stochastic branch injects a random fraud incident only while no
\* fraud incident is marked active in the singleton state, and a volatility
\* spike only while no market crash is marked active.
C14_InjectsOnlyWhileNoneActive ==
    [][/\ "fraud" \in injected' \ injected => ~fraudEventActive
       /\ "spike" \in injected' \ injected => ~marketCrashActive]_vars

----------------------------------------------------------------------------
(* SeededRandom (mulberry32).  A 32-bit word is the pair <<hi, lo>> of its *)
(* 16-bit halves, so that no intermediate value leaves the range of the    *)
(* model checker's integers; JavaScript's ToInt32 and ToUint32 keep the    *)
(* same 32 bits, so signed and unsigned words are the same pairs.          *)

\* 2^16
Half == 65536

\* 2^8
Byte == 256

\* 2^1 .. 2^16
Powers == <<2, 4, 8, 16, 32, 64, 128, 256, 512, 1024, 2048, 4096, 8192, 16384, 32768, 65536>>

Pow2(n) == IF n = 0 THEN 1 ELSE Powers[n]

\* bit k of x
Bit(x, k) == (x \div Pow2(k)) % 2

\* x ^ y, for x, y below 2^16
Xor16(x, y) ==
    1 * ((Bit(x, 0) + Bit(y, 0)) % 2) +
    2 * ((Bit(x, 1) + Bit(y, 1)) % 2) +
    4 * ((Bit(x, 2) + Bit(y, 2)) % 2) +
    8 * ((Bit(x, 3) + Bit(y, 3)) % 2) +
    16 * ((Bit(x, 4) + Bit(y, 4)) % 2) +
    32 * ((Bit(x, 5) + Bit(y, 5)) % 2) +
    64 * ((Bit(x, 6) + Bit(y, 6)) % 2) +
    128 * ((Bit(x, 7) + Bit(y, 7)) % 2) +
    256 * ((Bit(x, 8) + Bit(y, 8)) % 2) +
    512 * ((Bit(x, 9) + Bit(y, 9)) % 2) +
    1024 * ((Bit(x, 10) + Bit(y, 10)) % 2) +
    2048 * ((Bit(x, 11) + Bit(y, 11)) % 2) +
    4096 * ((Bit(x, 12) + Bit(y, 12)) % 2) +
    8192 * ((Bit(x, 13) + Bit(y, 13)) % 2) +
    16384 * ((Bit(x, 14) + Bit(y, 14)) % 2) +
    32768 * ((Bit(x, 15) + Bit(y, 15)) % 2)

\* x | y, for x, y below 2^16
Or16(x, y) ==
    1 * (IF Bit(x, 0) + Bit(y, 0) > 0 THEN 1 ELSE 0) +
    2 * (IF Bit(x, 1) + Bit(y, 1) > 0 THEN 1 ELSE 0) +
    4 * (IF Bit(x, 2) + Bit(y, 2) > 0 THEN 1 ELSE 0) +
    8 * (IF Bit(x, 3) + Bit(y, 3) > 0 THEN 1 ELSE 0) +
    16 * (IF Bit(x, 4) + Bit(y, 4) > 0 THEN 1 ELSE 0) +
    32 * (IF Bit(x, 5) + Bit(y, 5) > 0 THEN 1 ELSE 0) +
    64 * (IF Bit(x, 6) + Bit(y, 6) > 0 THEN 1 ELSE 0) +
    128 * (IF Bit(x, 7) + Bit(y, 7) > 0 THEN 1 ELSE 0) +
    256 * (IF Bit(x, 8) + Bit(y, 8) > 0 THEN 1 ELSE 0) +
    512 * (IF Bit(x, 9) + Bit(y, 9) > 0 THEN 1 ELSE 0) +
    1024 * (IF Bit(x, 10) + Bit(y, 10) > 0 THEN 1 ELSE 0) +
    2048 * (IF Bit(x, 11) + Bit(y, 11) > 0 THEN 1 ELSE 0) +
    4096 * (IF Bit(x, 12) + Bit(y, 12) > 0 THEN 1 ELSE 0) +
    8192 * (IF Bit(x, 13) + Bit(y, 13) > 0 THEN 1 ELSE 0) +
    16384 * (IF Bit(x, 14) + Bit(y, 14) > 0 THEN 1 ELSE 0) +
    32768 * (IF Bit(x, 15) + Bit(y, 15) > 0 THEN 1 ELSE 0)

\* a ^ b
Xor32(a, b) == <<Xor16(a[1], b[1]), Xor16(a[2], b[2])>>

\* a | k for a constant k below 2^16
OrLow(a, k) == <<a[1], Or16(a[2], k)>>

\* a >>> n, for 0 < n < 16
Shr32(a, n) ==
    <<a[1] \div Pow2(n), (a[2] \div Pow2(n)) + (a[1] % Pow2(n)) * Pow2(16 - n)>>

\* a << n, for 0 < n < 16
Shl32(a, n) ==
    <<((a[1] * Pow2(n)) + ((a[2] * Pow2(n)) \div Half)) % Half, (a[2] * Pow2(n)) % Half>>

\* (a + b) modulo 2^32
Add32(a, b) ==
    LET lo == a[2] + b[2]
    IN  <<(a[1] + b[1] + (lo \div Half)) % Half, lo % Half>>

\* (-a) modulo 2^32
Neg32(a) ==
    <<(Half - 1 - a[1] + (IF a[2] = 0 THEN 1 ELSE 0)) % Half, (Half - a[2]) % Half>>

\* (x * y) modulo 2^16, for x, y below 2^16
MulLow16(x, y) == ((x * (y % Byte)) + ((x * (y \div Byte)) % Byte) * Byte) % Half

\* Math.imul(a, b): the low 32 bits of the product
Imul(a, b) ==
    LET p0 == a[2] * (b[2] % Byte)
        p1 == a[2] * (b[2] \div Byte)
        lo == p0 + (p1 % Byte) * Byte
        hi == (p1 \div Byte) + (lo \div Half)
    IN  <<(hi + MulLow16(a[1], b[2]) + MulLow16(a[2], b[1])) % Half, lo % Half>>

\* a < b as unsigned words
Less32(a, b) == a[1] < b[1] \/ (a[1] = b[1] /\ a[2] < b[2])

\* 0x6d2b79f5
Increment == <<27947, 31221>>

\* next(): the state after the call, wrapped to 32 bits, and the numerator
\* of the result, result = value / 4294967296
next(state) ==
    LET s1 == Add32(state, Increment)
        t1 == Imul(Xor32(s1, Shr32(s1, 15)), OrLow(s1, 1))
        t2 == Xor32(t1, Add32(t1, Imul(Xor32(t1, Shr32(t1, 7)), OrLow(t1, 61))))
    IN  [state |-> s1, value |-> Xor32(t2, Shr32(t2, 14))]

\* a is a 32-bit word
IsWord(a) == a[1] \in 0..(Half - 1) /\ a[2] \in 0..(Half - 1)

RECURSIVE HashFrom(_, _, _)
\* the loop of hashString from character i on: hash = (hash << 5) - hash + char,
\* and hash & hash keeps it a 32-bit word
HashFrom(hash, str, i) ==
    IF i > Len(str) THEN hash
    ELSE LET h == Add32(Add32(Shl32(hash, 5), Neg32(hash)), <<0, str[i]>>)
         IN  IF IsWord(h) THEN HashFrom(h, str, i + 1) ELSE <<>>

\* hashString(str): Math.abs of the signed hash; str is the sequence of the
\* string's character codes
hashString(str) ==
    LET hash == HashFrom(<<0, 0>>, str, 1)
    IN  IF hash[1] >= Half \div 2 THEN Neg32(hash) ELSE hash

\* the mutant of SeededRandom: the state is shared, so a second instance
\* goes on from where the first one is
SeededRandom_Shared(seed) ==
    LET built == {i \in DOMAIN instances : instances[i].pc = "built"}
    IN  IF built # {} THEN instances[CHOOSE i \in built : TRUE].state
        ELSE IF seed.kind = "string" THEN hashString(seed.chars)
        ELSE <<seed.value[2], seed.value[3]>>

\* new SeededRandom(seed): the generator's state.  A number is the triple of
\* 16-bit parts of its integer value, of which seed >>> 0 keeps the low two.
SeededRandom(seed) ==
    IF seed.kind = "string" THEN hashString(seed.chars)
    ELSE <<seed.value[2], seed.value[3]>>

----------------------------------------------------------------------------
(* DetSpec: two cycles, each on its own copy of one stored state in which  *)
(* MaxDue pending transactions are due.  A cycle draws from its own         *)
(* generator and then resolves the due transactions in                     *)
(* processPendingTransactions.                                             *)
(*                                                                         *)
(* pc of a run: "seeded"  the cycle's generator is constructed             *)
(*              "batch"   the cycle drew once; processPendingTransactions  *)
(*                        is about to be called                            *)
(*              "decide"  inside the loop over the due transactions        *)
(*              "done"    every due transaction is resolved                *)

Modes == {"random", "deterministic"}

\* config.seedKey: "simulation-2024" (the default) and "nova"
SeedKeys ==
    {<<115, 105, 109, 117, 108, 97, 116, 105, 111, 110, 45, 50, 48, 50, 52>>,
     <<110, 111, 118, 97>>}

\* readings of the clock: the date is toISOString().split('T')[0] and now
\* is Date.now(): 2024-01-15T00:00:00.000Z, 2024-01-15T00:00:07.000Z and
\* 2024-01-16T00:00:00.000Z
Instants ==
    {[date |-> <<50, 48, 50, 52, 45, 48, 49, 45, 49, 53>>, now |-> <<397, 2666, 64512>>],
     [date |-> <<50, 48, 50, 52, 45, 48, 49, 45, 49, 53>>, now |-> <<397, 2667, 5976>>],
     [date |-> <<50, 48, 50, 52, 45, 48, 49, 45, 49, 54>>, now |-> <<397, 3985, 22528>>]}

\* "-"
Dash == <<45>>

\* config.cancelRate = 0.02: result < 0.02 exactly when value < 85899346
CancelRate == <<1310, 47186>>

\* config.amountChangeRate = 0.05: result < 0.05 exactly when value < 214748365
AmountChangeRate == <<3276, 52429>>

\* mode === 'deterministic' ? `${seedKey}-${date}` : Date.now()
cycleSeed(mode, seedKey, instant) ==
    IF mode = "deterministic"
    THEN [kind |-> "string", chars |-> seedKey \o Dash \o instant.date]
    ELSE [kind |-> "number", value |-> instant.now]

\* the seed processPendingTransactions gives its generator, in every mode
batchSeed(mode, seedKey, instant) == [kind |-> "number", value |-> instant.now]

\* runSimulationCycle up to `const rng = new SeededRandom(cycleSeed)`
StartRun(r, mode, seedKey, instant) ==
    /\ runs[r].pc = "idle"
    /\ runs' = [runs EXCEPT ![r] =
                    [pc |-> "seeded", mode |-> mode, seedKey |-> seedKey,
                     instant |-> instant,
                     rng |-> SeededRandom(cycleSeed(mode, seedKey, instant)),
                     draw |-> <<>>, batchRng |-> <<>>, decisions |-> <<>>]]

\* the cycle's first rng.next()
DrawOnce(r) ==
    /\ runs[r].pc = "seeded"
    /\ LET n == next(runs[r].rng)
       IN  runs' = [runs EXCEPT ![r].pc = "batch", ![r].rng = n.state,
                                ![r].draw = n.value]

\* processPendingTransactions: const rng = new SeededRandom(Date.now())
BeginBatch(r) ==
    /\ runs[r].pc = "batch"
    /\ runs' = [runs EXCEPT
                    ![r].pc = "decide",
                    ![r].batchRng = SeededRandom(batchSeed(runs[r].mode, runs[r].seedKey,
                                                           runs[r].instant))]

\* one iteration of the loop: cancel on the first draw, else a second draw
\* decides the amount change, whose size takes a third draw
Decision(state) ==
    LET n1 == next(state)
        n2 == next(n1.state)
        n3 == next(n2.state)
    IN  IF Less32(n1.value, CancelRate)
        THEN [state |-> n1.state, kind |-> "cancel"]
        ELSE IF Less32(n2.value, AmountChangeRate)
             THEN [state |-> n3.state, kind |-> "change"]
             ELSE [state |-> n2.state, kind |-> "post"]

Decide(r) ==
    /\ runs[r].pc = "decide"
    /\ LET d == Decision(runs[r].batchRng)
           all == Append(runs[r].decisions, d.kind)
       IN  runs' = [runs EXCEPT ![r].batchRng = d.state,
                                ![r].decisions = all,
                                ![r].pc = IF Len(all) = MaxDue THEN "done" ELSE "decide"]

\* what DetSpec leaves alone
detFrame == <<lifecycleVars, schedVars, cycleVars, eventVars, loanVars, fraudVars, marketVars, rngVars, chaosVars, faultVars, raceVars, payrollVars>>

DetNext ==
    \/ (\E r \in Runs, mode \in Modes, seedKey \in SeedKeys, instant \in Instants :
            StartRun(r, mode, seedKey, instant)) /\ UNCHANGED detFrame
    \/ (\E r \in Runs : DrawOnce(r)) /\ UNCHANGED detFrame
    \/ (\E r \in Runs : BeginBatch(r)) /\ UNCHANGED detFrame
    \/ (\E r \in Runs : Decide(r)) /\ UNCHANGED detFrame

DetSpec == QuietInit /\ [][DetNext]_vars

----------------------------------------------------------------------------
(* Claims about determinism, checked under DetSpec *)

\* both runs are over, in deterministic mode, with one seedKey on one date
C15_SameSeedSameDate ==
    /\ \A r \in Runs : runs[r].pc = "done" /\ runs[r].mode = "deterministic"
    /\ runs[1].seedKey = runs[2].seedKey
    /\ runs[1].instant.date = runs[2].instant.date

\* C15: in deterministic mode, two cycles started from identical stored
\* state with the same seedKey on the same calendar date make identical
\* random decisions, including the cancel / post-with-amount-change /
\* post-as-is decision for every due pending transaction.
C15_SameDecisions ==
    C15_SameSeedSameDate
        => /\ runs[1].draw = runs[2].draw
           /\ runs[1].decisions = runs[2].decisions

----------------------------------------------------------------------------
(* LoanSpec: the loan engine, engines/loans.ts.  One Loan row and the      *)
(* balance of its account; the calls run one at a time.  Amounts are       *)
(* cents; an annual interest rate is kept in thousandths (85 is 0.085).    *)

\* floor(x * num / den) without forming x * num
MulDivFloor(x, num, den) == (x \div den) * num + ((x % den) * num) \div den

\* ceil(x * num / den) without forming x * num
MulDivCeil(x, num, den) ==
    (x \div den) * num + ((x % den) * num + den - 1) \div den

\* Math.ceil(n / d) for n >= 0, d > 0
CeilDiv(n, d) == (n + d - 1) \div d

\* annualRate / 12 as a fraction of RateScale, for rates in thousandths
RateScale == 12000

\* fixed-point unit of the bounds on Math.pow and on the payment
PowScale == 100000000

\* decimal digits of PowScale
PowDigits == 8

\* cents are bounded to hundredths of a cent
CentScale == 100

RECURSIVE PowBounds(_, _, _)
\* Math.pow(1 + monthlyRate, termMonths): b = <<lower, upper>> bounds, in
\* units of 1 / PowScale, of (1 + rate / RateScale) ^ (months done so far)
PowBounds(b, rate, k) ==
    IF k = 0 THEN b
    ELSE LET b2 == <<b[1] + MulDivFloor(b[1], rate, RateScale),
                     b[2] + MulDivCeil(b[2], rate, RateScale)>>
         IN  IF b2[1] <= b2[2] THEN PowBounds(b2, rate, k - 1) ELSE <<>>

RECURSIVE LongDivFrom(_, _, _, _)
\* long division: q and r are the quotient and remainder so far, k more
\* decimal digits to produce
LongDivFrom(q, r, d, k) ==
    IF k = 0 THEN q
    ELSE LET q2 == 10 * q + (10 * r) \div d
         IN  IF q2 >= 0 THEN LongDivFrom(q2, (10 * r) % d, d, k - 1) ELSE 0

\* floor(n * PowScale / d)
LongDiv(n, d) == LongDivFrom(n \div d, n % d, d, PowDigits)

\* bounds <<lower, upper>>, in hundredths of a cent, of
\* principal * (monthlyRate * pow) / (pow - 1), written as
\* principal * monthlyRate + principal * monthlyRate / (pow - 1)
PaymentBounds(principal, rate, termMonths) ==
    LET pow == PowBounds(<<PowScale, PowScale>>, rate, termMonths)
        n   == principal * rate
        den == RateScale \div CentScale
    IN  <<MulDivFloor(principal * CentScale, rate, RateScale)
            + LongDiv(n, pow[2] - PowScale) \div den,
          MulDivCeil(principal * CentScale, rate, RateScale)
            + (LongDiv(n, pow[1] - PowScale) + 1) \div den + 1>>

\* the mutant of calculateMonthlyPayment: Math.floor in place of Math.ceil
calculateMonthlyPayment_Floor(principal, rate, termMonths) ==
    IF rate = 0 THEN principal \div termMonths
    ELSE PaymentBounds(principal, rate, termMonths)[1] \div CentScale

\* calculateMonthlyPayment; NoAmount when the bounds do not settle the ceiling
calculateMonthlyPayment(principal, rate, termMonths) ==
    IF rate = 0 THEN CeilDiv(principal, termMonths)
    ELSE LET b == PaymentBounds(principal, rate, termMonths)
         IN  IF CeilDiv(b[1], CentScale) = CeilDiv(b[2], CentScale)
             THEN CeilDiv(b[1], CentScale)
             ELSE NoAmount

\* LOAN_CONFIGS, the two loan types of the model
LOAN_CONFIGS ==
    [consumer  |-> [minAmount |-> 50000, maxAmount |-> 2500000,
                    minTermMonths |-> 6, maxTermMonths |-> 60,
                    baseInterestRate |-> 85, minCreditScore |-> 60],
     emergency |-> [minAmount |-> 10000, maxAmount |-> 200000,
                    minTermMonths |-> 1, maxTermMonths |-> 12,
                    baseInterestRate |-> 180, minCreditScore |-> 80]]

LoanTypes == DOMAIN LOAN_CONFIGS

\* the users that apply: User.riskScore and whether KYC and AML are in order
LoanUsers == [riskScore : {0, 40, 70}, verified : BOOLEAN]

\* the amounts and terms applied for
LoanAmounts == {10000, 500000}

LoanTerms == {3, 24}

\* the balances the sandbox sets on the loan's account
LoanBalances == {0, 600000}

\* what a loan call leaves: the row, the account's balance, success or not
LoanStore(ln, bal, ok) == [loan |-> ln, balance |-> bal, success |-> ok]

\* the row and the balance as they are now
CurrentLoanStore == [loan |-> loan, balance |-> loanBalance]

\* checkLoanEligibility: eligible, with no other loan of the user
checkLoanEligibility(user, loanType) ==
    /\ user.riskScore <= LOAN_CONFIGS[loanType].minCreditScore
    /\ user.verified

\* checkLoanEligibility's interestRate: base rate plus the risk premium
\* (riskScore / 100) * 0.05
EligibleRate(user, loanType) ==
    LOAN_CONFIGS[loanType].baseInterestRate + user.riskScore \div 2

\* a paymentsMissed of this or more before a miss defaults the loan
MissedBeforeDefault == 2

\* the mutant of approveLoan: the status is not checked
approveLoan_AnyStatus(st) ==
    LoanStore([st.loan EXCEPT !.status = "active"],
              st.balance + st.loan.principalAmount, TRUE)

\* approveLoan
approveLoan(st) ==
    IF st.loan.status # "pending" THEN LoanStore(st.loan, st.balance, FALSE)
    ELSE LoanStore([st.loan EXCEPT !.status = "active"],
                   st.balance + st.loan.principalAmount, TRUE)

\* rejectLoan
rejectLoan(st) ==
    IF st.loan.status # "pending" THEN LoanStore(st.loan, st.balance, FALSE)
    ELSE LoanStore([st.loan EXCEPT !.status = "rejected"], st.balance, TRUE)

\* defaultLoan
defaultLoan(ln) == [ln EXCEPT !.status = "defaulted"]

\* the missed-payment branch of processLoanPayment
MissPayment(ln) ==
    LET counted == [ln EXCEPT !.paymentsMissed = @ + 1]
    IN  IF ln.paymentsMissed >= MissedBeforeDefault THEN defaultLoan(counted)
        ELSE counted

\* processLoanPayment without a paymentAmount: the monthly payment
processLoanPayment(st) ==
    LET ln == st.loan
        amount == ln.monthlyPayment
        monthlyInterest == MulDivFloor(ln.remainingAmount, ln.interestRate, RateScale)
        principalPayment == Max(0, amount - monthlyInterest)
        newRemainingAmount == Max(0, ln.remainingAmount - principalPayment)
        loanStatus == IF newRemainingAmount <= 0 THEN "paid" ELSE "active"
    IN  IF ln.status # "active" THEN LoanStore(ln, st.balance, FALSE)
        ELSE IF st.balance < amount THEN LoanStore(MissPayment(ln), st.balance, FALSE)
        ELSE LoanStore([ln EXCEPT !.remainingAmount = newRemainingAmount,
                                  !.paymentsMade = @ + 1,
                                  !.status = loanStatus],
                       st.balance - amount, TRUE)

\* processLoanDefaults for the one loan; overdue: 90 days without a payment
processLoanDefaults(st, overdue) ==
    IF st.loan.status = "active" /\ overdue
    THEN LoanStore([st.loan EXCEPT !.status = "defaulted"], st.balance, TRUE)
    ELSE LoanStore(st.loan, st.balance, FALSE)

\* applyForLoan with no Loan row yet
applyForLoan(st, user, loanType, amount, termMonths) ==
    LET config == LOAN_CONFIGS[loanType]
        rate == EligibleRate(user, loanType)
        created == [status |-> "pending", principalAmount |-> amount,
                    remainingAmount |-> amount, interestRate |-> rate,
                    monthlyPayment |-> calculateMonthlyPayment(amount, rate, termMonths),
                    termMonths |-> termMonths,
                    paymentsMissed |-> 0, paymentsMade |-> 0]
    IN  IF amount < config.minAmount \/ amount > config.maxAmount
        THEN LoanStore(st.loan, st.balance, FALSE)
        ELSE IF termMonths < config.minTermMonths \/ termMonths > config.maxTermMonths
        THEN LoanStore(st.loan, st.balance, FALSE)
        ELSE IF ~checkLoanEligibility(user, loanType)
        THEN LoanStore(st.loan, st.balance, FALSE)
        ELSE IF user.riskScore < 30
        THEN approveLoan(LoanStore(created, st.balance, TRUE))
        ELSE LoanStore(created, st.balance, TRUE)


\* a loan call returned: the row and the balance it left, and its outcome
LoanReturns(call, out) ==
    /\ loan' = out.loan
    /\ loanBalance' = out.balance
    /\ loanResult' = <<call, out.success>>

\* POST /loans/apply, while the user has no loan
ApplyForLoan(user, loanType, amount, termMonths) ==
    /\ loan.status = "none"
    /\ LoanReturns("apply", applyForLoan(CurrentLoanStore, user, loanType, amount, termMonths))
    /\ UNCHANGED <<missedInRow, defaultedBy>>

\* POST /loans/:id/approve
ApproveLoan ==
    /\ LoanReturns("approve", approveLoan(CurrentLoanStore))
    /\ UNCHANGED <<missedInRow, defaultedBy>>

\* POST /loans/:id/reject
RejectLoan ==
    /\ LoanReturns("reject", rejectLoan(CurrentLoanStore))
    /\ UNCHANGED <<missedInRow, defaultedBy>>

\* a monthly payment falls due: processLoanPayment(loan.id)
ProcessLoanPayment ==
    LET out == processLoanPayment(CurrentLoanStore)
        missed == loan.status = "active" /\ ~out.success
    IN  /\ LoanReturns("payment", out)
        /\ missedInRow' = IF missed THEN missedInRow + 1
                          ELSE IF out.success THEN 0 ELSE missedInRow
        /\ defaultedBy' = IF missed /\ out.loan.status = "defaulted" THEN "missed"
                          ELSE defaultedBy

\* the daily processLoanDefaults
ProcessLoanDefaults(overdue) ==
    LET out == processLoanDefaults(CurrentLoanStore, overdue)
    IN  /\ LoanReturns("defaults", out)
        /\ defaultedBy' = IF out.success THEN "overdue" ELSE defaultedBy
        /\ UNCHANGED missedInRow

\* PATCH /sandbox/account/:id/set-balance
SetLoanBalance(balance) ==
    /\ loanBalance' = balance
    /\ loanResult' = <<"set-balance", TRUE>>
    /\ UNCHANGED <<loan, missedInRow, defaultedBy>>

loanFrame == <<lifecycleVars, schedVars, cycleVars, eventVars, detVars, fraudVars, marketVars, rngVars, chaosVars, faultVars, raceVars, payrollVars>>

LoanNext ==
    \/ (\E user \in LoanUsers, loanType \in LoanTypes, amount \in LoanAmounts,
           termMonths \in LoanTerms : ApplyForLoan(user, loanType, amount, termMonths))
       /\ UNCHANGED loanFrame
    \/ ApproveLoan /\ UNCHANGED loanFrame
    \/ RejectLoan /\ UNCHANGED loanFrame
    \/ ProcessLoanPayment /\ UNCHANGED loanFrame
    \/ (\E overdue \in BOOLEAN : ProcessLoanDefaults(overdue)) /\ UNCHANGED loanFrame
    \/ (\E balance \in LoanBalances : SetLoanBalance(balance)) /\ UNCHANGED loanFrame

LoanSpec == QuietInit /\ [][LoanNext]_vars

\* the statuses after which nothing changes a loan's status
TerminalStatuses == {"paid", "defaulted", "rejected"}

\* the outcomes of every loan call on the loan as it is now, with the status
\* changes that call may make
LoanCallOutcomes ==
    {<<approveLoan(CurrentLoanStore), {<<"pending", "active">>}>>,
     <<rejectLoan(CurrentLoanStore), {<<"pending", "rejected">>}>>,
     <<processLoanPayment(CurrentLoanStore),
       {<<"active", "paid">>, <<"active", "defaulted">>}>>,
     <<processLoanDefaults(CurrentLoanStore, TRUE), {<<"active", "defaulted">>}>>,
     <<processLoanDefaults(CurrentLoanStore, FALSE), {}>>}

\* C16: a loan's status changes only along pending->active (approveLoan),
\* pending->rejected (rejectLoan), active->paid and active->defaulted;
\* approveLoan and rejectLoan fail on a loan that is not pending,
\* processLoanPayment fails on a loan that is not active, and paid,
\* defaulted and rejected are terminal: no call changes such a loan's status.
C16_LoanStatusTransitions ==
    /\ \A oc \in LoanCallOutcomes :
          oc[1].loan.status # loan.status
              => <<loan.status, oc[1].loan.status>> \in oc[2]
    /\ loan.status # "pending"
          => /\ ~approveLoan(CurrentLoanStore).success
             /\ approveLoan(CurrentLoanStore).loan = loan
             /\ ~rejectLoan(CurrentLoanStore).success
             /\ rejectLoan(CurrentLoanStore).loan = loan
    /\ loan.status # "active"
          => /\ ~processLoanPayment(CurrentLoanStore).success
             /\ processLoanPayment(CurrentLoanStore).loan = loan
    /\ loan.status \in TerminalStatuses
          => \A oc \in LoanCallOutcomes : oc[1].loan.status = loan.status

\* C16 witness: a paid loan on which approve was tried and failed
C16_Witness ==
    /\ loan.status = "paid"
    /\ loanResult = <<"approve", FALSE>>


\* the number of the missed payment at which the rule defaults a loan
MissesToDefault == MissedBeforeDefault + 1

\* C17: the missed-payment rule defaults an active loan when, and only
\* when, its third consecutive missed payment occurs: a loan defaulted by
\* the rule has just missed three payments in a row, a loan that missed
\* three in a row is no longer active, and misses separated by a successful
\* payment do not add up.
C17_DefaultOnConsecutiveMisses ==
    /\ defaultedBy = "missed" => missedInRow >= MissesToDefault
    /\ loan.status = "active" => missedInRow < MissesToDefault


RECURSIVE AmortizationBounds(_, _, _, _)
\* the amortization schedule the formula solves, in exact arithmetic:
\* each month the balance grows by rate / RateScale and the payment is
\* taken off.  b = <<lower, upper>> bounds the balance in hundredths of a
\* cent; the result bounds the balance after k more months.
AmortizationBounds(b, rate, payment, k) ==
    IF k = 0 THEN b
    ELSE LET b2 == <<b[1] + MulDivFloor(b[1], rate, RateScale) - payment * CentScale,
                     b[2] + MulDivCeil(b[2], rate, RateScale) - payment * CentScale>>
         IN  IF b2[1] <= b2[2] THEN AmortizationBounds(b2, rate, payment, k - 1)
             ELSE <<>>

\* the balance of the exact schedule of loan ln after its whole term, were
\* every payment the given one
BalanceAfterTerm(ln, payment) ==
    AmortizationBounds(<<ln.principalAmount * CentScale, ln.principalAmount * CentScale>>,
                       ln.interestRate, payment, ln.termMonths)

\* the loan of the scenario: principal 500000, annual rate 0.085, 24 months
C18_IsScenarioLoan ==
    /\ loan.principalAmount = 500000
    /\ loan.interestRate = 85
    /\ loan.termMonths = 24

\* C18: for a loan with principal 500000, annual rate 0.085 and term 24
\* months, monthlyPayment is the ceiling of the amortization formula, that
\* is the least whole payment whose exact schedule ends at or below zero
\* after the term; and once processLoanPayment has taken 24 payments of
\* that amount the remaining amount is <= 0 and the loan is paid.
C18_RepaidWithinTerm ==
    C18_IsScenarioLoan
        => /\ BalanceAfterTerm(loan, loan.monthlyPayment)[2] <= 0
           /\ BalanceAfterTerm(loan, loan.monthlyPayment - 1)[1] > 0
           /\ loan.paymentsMade <= loan.termMonths
           /\ loan.paymentsMade = loan.termMonths
                 => /\ loan.remainingAmount <= 0
                    /\ loan.status = "paid"

\* C18 witness: the scenario's loan after its 24th successful payment
C18_Witness ==
    /\ C18_IsScenarioLoan
    /\ loan.paymentsMade = 24
    /\ loanResult = <<"payment", TRUE>>

----------------------------------------------------------------------------
(* FraudSpec: fraud alerts and account freezes, engines/fraud.ts.  The     *)
(* calls run one at a time and the store does not fail.                    *)

\* what the fraud calls read and write: Account.frozen and the alerts
FraudStore(frozen, alerts) == [frozen |-> frozen, alerts |-> alerts]

CurrentFraudStore == FraudStore(accountFrozen, fraudAlerts)

\* prisma.account.findMany({ where: { userId } })
AccountsOfUser(userId) ==
    SelectSeq(FraudAccountOrder, LAMBDA a : FraudAccountOwner[a] = userId)

\* freezeAccount
freezeAccount(st, accountId, alertId) ==
    FraudStore([st.frozen EXCEPT ![accountId] = TRUE],
               IF alertId = NoAlert THEN st.alerts
               ELSE [st.alerts EXCEPT ![alertId].actionTaken = "account_frozen"])

\* unfreezeAccount: the flag is cleared and the user's open alerts dismissed
unfreezeAccount(st, accountId) ==
    FraudStore([st.frozen EXCEPT ![accountId] = FALSE],
               [k \in DOMAIN st.alerts |->
                   IF /\ st.alerts[k].userId = FraudAccountOwner[accountId]
                      /\ st.alerts[k].status = "open"
                   THEN [st.alerts[k] EXCEPT !.status = "dismissed"]
                   ELSE st.alerts[k]])

RECURSIVE FreezeEach(_, _, _)
\* for (const account of accounts) await freezeAccount(account.id, ..., alert.id)
FreezeEach(st, accs, alertId) ==
    IF accs = <<>> THEN st
    ELSE FreezeEach(freezeAccount(st, Head(accs), alertId), Tail(accs), alertId)

\* the mutant of AutoFreezes: high alerts freeze too
AutoFreezes_High(severity) == severity \in {"high", "critical"}

\* severity === 'critical'
AutoFreezes(severity) == severity = "critical"

\* createFraudAlert
createFraudAlert(st, userId, severity) ==
    LET alert == [userId |-> userId, severity |-> severity, status |-> "open",
                  actionTaken |-> "none"]
        created == FraudStore(st.frozen, Append(st.alerts, alert))
    IN  IF AutoFreezes(severity)
        THEN FreezeEach(created, AccountsOfUser(userId), Len(created.alerts))
        ELSE created

\* a fraud call returned
FraudReturns(out, isAlert) ==
    /\ accountFrozen' = out.frozen
    /\ fraudAlerts' = out.alerts
    /\ frozenBefore' = IF isAlert THEN accountFrozen ELSE frozenBefore
    /\ alertJustCreated' = isAlert

\* POST /fraud/alerts, and the alerts of the detection rules
CreateFraudAlert(userId, severity) ==
    /\ Len(fraudAlerts) < MaxAlerts
    /\ FraudReturns(createFraudAlert(CurrentFraudStore, userId, severity), TRUE)

\* POST /fraud/accounts/:id/freeze
FreezeEndpoint(accountId) ==
    FraudReturns(freezeAccount(CurrentFraudStore, accountId, NoAlert), FALSE)

\* POST /fraud/accounts/:id/unfreeze
UnfreezeEndpoint(accountId) ==
    FraudReturns(unfreezeAccount(CurrentFraudStore, accountId), FALSE)

fraudFrame == <<lifecycleVars, schedVars, cycleVars, eventVars, detVars, loanVars, marketVars, rngVars, chaosVars, faultVars, raceVars, payrollVars>>

FraudNext ==
    \/ (\E userId \in FraudUsers, severity \in FraudSeverities :
           CreateFraudAlert(userId, severity)) /\ UNCHANGED fraudFrame
    \/ (\E accountId \in FraudAccounts : FreezeEndpoint(accountId))
       /\ UNCHANGED fraudFrame
    \/ (\E accountId \in FraudAccounts : UnfreezeEndpoint(accountId))
       /\ UNCHANGED fraudFrame

FraudSpec == QuietInit /\ [][FraudNext]_vars

\* the alert the latest createFraudAlert created
C19_LatestAlert == fraudAlerts[Len(fraudAlerts)]

\* C19: creating a fraud alert freezes every account of the alerted user
\* if and only if the alert is critical: right after a critical alert all
\* accounts of that user are frozen, right after any other alert every
\* account's frozen flag is what it was, and no alert touches the accounts
\* of another user.
C19_CriticalAlertFreezesAll ==
    alertJustCreated
        => /\ C19_LatestAlert.severity = "critical"
                => \A a \in FraudAccounts :
                      FraudAccountOwner[a] = C19_LatestAlert.userId => accountFrozen[a]
           /\ C19_LatestAlert.severity # "critical" => accountFrozen = frozenBefore
           /\ \A a \in FraudAccounts :
                 FraudAccountOwner[a] # C19_LatestAlert.userId
                     => accountFrozen[a] = frozenBefore[a]

\* C19 witness: a critical alert was just created for the user with two
\* accounts, neither of which was frozen before
C19_Witness ==
    /\ alertJustCreated
    /\ C19_LatestAlert.severity = "critical"
    /\ C19_LatestAlert.userId = "u1"
    /\ \A a \in FraudAccounts : ~frozenBefore[a]
    /\ accountFrozen["f1"] /\ accountFrozen["f2"]

----------------------------------------------------------------------------
(* MarketSpec: market prices, engines/investment.ts.  Rates are whole      *)
(* multiples of 1 / ChangeScale; random draws come from small sets.        *)

\* rng.next(), in thousandths
MarketRolls == {0, 500, 999}

\* volatilityMultiplier, in tenths: the cycle's about 1.0 and the spike's 2.0
VolatilityMultipliers == {10, 20}

\* 0.8 + Math.random() * 0.4, in tenths
Jitters == {8, 11}

\* crashMultipliers, in thousandths
crashMultipliers == [mild |-> 50, moderate |-> 150, severe |-> 350]

\* recoveryPercent of POST /sandbox/trigger/market-recovery, in thousandths:
\* the default 0.1, and a body the endpoint passes on unchecked
RecoveryPercents == {100, -1000}

\* the asset-class factor of a crash, in tenths
CrashClassFactor(type) ==
    IF type = "crypto" THEN 15
    ELSE IF type \in {"bond", "savings"} THEN 3
    ELSE 10

\* Math.floor(asset.price * (1 + rate))
PriceTimes(price, rate) == (price * (ChangeScale + rate)) \div ChangeScale

\* (newPrice - asset.price) / asset.price; 0 stands for the NaN of 0 / 0
RelativeChange(newPrice, price) ==
    IF price > 0 THEN ((newPrice - price) * ChangeScale) \div price
    ELSE IF price < 0 THEN -(((newPrice - price) * ChangeScale) \div (-price))
    ELSE 0

\* updateMarketPrices for one asset: roll is its rng.next()
UpdatedAsset(s, asset, roll, multiplier) ==
    LET baseChange == ((2 * roll - 1000) * DEFAULT_ASSETS[s].volatility * multiplier)
                          \div 10000
        momentum == asset.change \div 10
        dailyChange == baseChange + momentum
    IN  [price |-> Max(1, PriceTimes(asset.price, dailyChange)),
         change |-> dailyChange]

\* updateMarketPrices
updateMarketPrices(assets, rolls, multiplier) ==
    [s \in AssetSymbols |-> UpdatedAsset(s, assets[s], rolls[s], multiplier)]

\* triggerMarketCrash for one asset
CrashedAsset(s, asset, severity, jitter) ==
    LET finalCrashAmount ==
            (crashMultipliers[severity] * CrashClassFactor(DEFAULT_ASSETS[s].type) * jitter)
                \div 10
        newPrice == Max(1, PriceTimes(asset.price, -finalCrashAmount))
    IN  [price |-> newPrice, change |-> RelativeChange(newPrice, asset.price)]

\* triggerMarketCrash
triggerMarketCrash(assets, severity, jitters) ==
    [s \in AssetSymbols |-> CrashedAsset(s, assets[s], severity, jitters[s])]

\* triggerMarketRecovery for one asset
RecoveredAsset(asset, recoveryPercent, jitter) ==
    LET recovery == recoveryPercent * jitter
    IN  [price |-> PriceTimes(asset.price, recovery), change |-> recovery]

\* triggerMarketRecovery
triggerMarketRecovery(assets, recoveryPercent, jitters) ==
    [s \in AssetSymbols |-> RecoveredAsset(assets[s], recoveryPercent, jitters[s])]

\* the daily update of the cycle, POST /portfolio/market/update, and the
\* volatility spike of checkForRandomEvents
MarketUpdate(rolls, multiplier) ==
    /\ marketSteps < MaxMarketSteps
    /\ marketAssets' = updateMarketPrices(marketAssets, rolls, multiplier)
    /\ marketSteps' = marketSteps + 1
    /\ UNCHANGED marketCrashActive

\* POST /sandbox/trigger/market-crash
MarketCrash(severity, jitters) ==
    /\ marketSteps < MaxMarketSteps
    /\ marketAssets' = triggerMarketCrash(marketAssets, severity, jitters)
    /\ marketCrashActive' = TRUE
    /\ marketSteps' = marketSteps + 1

\* POST /sandbox/trigger/market-recovery
MarketRecovery(recoveryPercent, jitters) ==
    /\ marketSteps < MaxMarketSteps
    /\ marketAssets' = triggerMarketRecovery(marketAssets, recoveryPercent, jitters)
    /\ marketCrashActive' = FALSE
    /\ marketSteps' = marketSteps + 1

marketFrame == <<lifecycleVars, schedVars, cycleVars, fraudEventActive, marketHours,
                 randomEvents, injected, detVars, loanVars, fraudVars, rngVars, chaosVars, faultVars, raceVars, payrollVars>>

MarketNext ==
    \/ (\E rolls \in [AssetSymbols -> MarketRolls], multiplier \in VolatilityMultipliers :
           MarketUpdate(rolls, multiplier)) /\ UNCHANGED marketFrame
    \/ (\E severity \in DOMAIN crashMultipliers, jitters \in [AssetSymbols -> Jitters] :
           MarketCrash(severity, jitters)) /\ UNCHANGED marketFrame
    \/ (\E recoveryPercent \in RecoveryPercents, jitters \in [AssetSymbols -> Jitters] :
           MarketRecovery(recoveryPercent, jitters)) /\ UNCHANGED marketFrame

MarketSpec == QuietInit /\ [][MarketNext]_vars

\* C20: after any sequence of price updates, volatility spikes, crashes of
\* any severity and recoveries, every market asset's price is >= 1.
C20_PriceFloor == \A s \in AssetSymbols : marketAssets[s].price >= 1

----------------------------------------------------------------------------
(* RngSpec: two SeededRandom instances, each constructed from a seed and   *)
(* then called; an instance keeps the calls made on it and what they       *)
(* returned.  The result of next() is kept as its numerator, a 32-bit      *)
(* word: next() = numerator / 4294967296.                                  *)

\* the seeds: the numbers 42 and 4294967338 (which seed >>> 0 turns into
\* 42), and the string "nova"
RngSeeds ==
    {[kind |-> "number", value |-> <<0, 0, 42>>],
     [kind |-> "number", value |-> <<1, 0, 42>>],
     [kind |-> "string", chars |-> <<110, 111, 118, 97>>]}

\* the arguments of nextInt(min, max) in the calls
NextIntRange == [min |-> 6, max |-> 24]

\* the weights of the items in the calls of pickWeighted: the student
\* persona's categoryWeights
ItemWeights == <<30, 20, 15, 15, 10, 10>>

RECURSIVE SumTo(_, _)
\* items.reduce((sum, item) => sum + item.weight, 0), over the first k items
SumTo(weights, k) == IF k = 0 THEN 0 ELSE SumTo(weights, k - 1) + weights[k]

\* next() * n for a whole n below 2^15: the whole part, and whether the
\* product is a whole number
TimesWhole(value, n) ==
    LET low == value[2] * n
        all == value[1] * n + low \div Half
    IN  [floor |-> all \div Half, exact |-> all % Half = 0 /\ low % Half = 0]

\* nextInt(min, max): Math.floor(this.next() * (max - min + 1)) + min
nextInt(state, min, max) ==
    LET drawn == next(state)
    IN  [state |-> drawn.state,
         value |-> TimesWhole(drawn.value, max - min + 1).floor + min]

\* pickWeighted(items): the index of the first item at which random, after
\* the weights so far are taken off next() * totalWeight, is <= 0
pickWeighted(state, weights) ==
    LET drawn == next(state)
        random == TimesWhole(drawn.value, SumTo(weights, Len(weights)))
        Reached(k) == \/ random.floor < SumTo(weights, k)
                      \/ random.floor = SumTo(weights, k) /\ random.exact
        hits == {k \in DOMAIN weights : Reached(k)}
    IN  [state |-> drawn.state,
         value |-> IF hits = {} THEN Len(weights)
                   ELSE CHOOSE k \in hits : \A j \in hits : k <= j]

\* the methods called
RngCalls == {"next", "nextInt", "pickWeighted"}

\* one call on a generator in the given state
RngCall(state, call) ==
    IF call = "next" THEN next(state)
    ELSE IF call = "nextInt" THEN nextInt(state, NextIntRange.min, NextIntRange.max)
    ELSE pickWeighted(state, ItemWeights)

\* new SeededRandom(seed)
Construct(i, seed) ==
    /\ instances[i].pc = "idle"
    /\ instances' = [instances EXCEPT ![i] =
           [pc |-> "built", seed |-> seed, state |-> SeededRandom(seed),
            calls |-> <<>>, results |-> <<>>]]

\* a call of next, nextInt or pickWeighted on instance i
CallInstance(i, call) ==
    /\ instances[i].pc = "built"
    /\ Len(instances[i].calls) < MaxCalls
    /\ LET out == RngCall(instances[i].state, call)
       IN  instances' = [instances EXCEPT
               ![i].state = out.state,
               ![i].calls = Append(@, call),
               ![i].results = Append(@, out.value)]

rngFrame == <<lifecycleVars, schedVars, cycleVars, eventVars, detVars, loanVars,
              fraudVars, marketVars, chaosVars, faultVars, raceVars, payrollVars>>

RngNext ==
    \/ (\E i \in Runs, seed \in RngSeeds : Construct(i, seed)) /\ UNCHANGED rngFrame
    \/ (\E i \in Runs, call \in RngCalls : CallInstance(i, call)) /\ UNCHANGED rngFrame

RngSpec == QuietInit /\ [][RngNext]_vars

\* the calls of both instances agree up to the k-th
C21_SameCallsUpTo(k) ==
    /\ k <= Len(instances[1].calls)
    /\ k <= Len(instances[2].calls)
    /\ SubSeq(instances[1].calls, 1, k) = SubSeq(instances[2].calls, 1, k)

MaxFailures == 2

Undefined == -1

ChaosModes == {"normal", "latency", "flaky", "maintenance", "corrupt"}

ResetUrl == <<"sandbox", "mode", "reset">>

ModeUrl == <<"sandbox", "mode">>

HealthUrl == <<"health">>

RootUrl == <<>>

PlainUrls == {<<"accounts">>, <<"sandbox">>, HealthUrl, RootUrl, ModeUrl}

RequestedModes == ChaosModes \cup {"bogus"}

RequestedLatencies == {Undefined, 0, 100}

RequestedRates == {Undefined, 0, 50, 150}

FlakyRolls == {0, 25, 99}

DefaultRates == {20, 29}

DefaultDelays == {2000, 7999}

\* request.url.startsWith('/sandbox/')
StartsWithSandbox_Never(url) == FALSE

StartsWithSandbox(url) == Len(url) >= 2 /\ url[1] = "sandbox"

Passed == [kind |-> "passed", status |-> 200, delay |-> 0, injected |-> 0]

\* The onRequest hook: what it does to a request for url under config, with
\* roll the Math.random() of the flaky test, rate the drawn default failure
\* rate and delay the drawn default latency.
chaosHook(config, url, roll, rate, delay) ==
    IF StartsWithSandbox(url) THEN Passed
    ELSE IF url = HealthUrl \/ url = RootUrl THEN Passed
    ELSE CASE config.chaosMode = "normal" -> Passed
           [] config.chaosMode = "latency" ->
                [kind |-> "delayed", status |-> 200,
                 delay |-> IF config.latencyMs # 0 THEN config.latencyMs ELSE delay,
                 injected |-> 0]
           [] config.chaosMode = "flaky" ->
                IF roll < (IF config.failureRate # 0 THEN config.failureRate ELSE rate)
                THEN [kind |-> "failed", status |-> 500, delay |-> 0, injected |-> 1]
                ELSE Passed
           [] config.chaosMode = "maintenance" ->
                [kind |-> "failed", status |-> 503, delay |-> 0, injected |-> 1]
           [] config.chaosMode = "corrupt" ->
                [kind |-> "corrupted", status |-> 200, delay |-> 0, injected |-> 1]
           [] OTHER -> Passed

updateSimulationConfig(config, mode, latencyMs, failureRate) ==
    [chaosMode |-> mode,
     latencyMs |-> IF latencyMs # Undefined THEN latencyMs ELSE config.latencyMs,
     failureRate |-> IF failureRate # Undefined THEN failureRate ELSE config.failureRate]

resetSimulationConfig == DEFAULT_CHAOS_CONFIG

\* The record of a served request; resetFrom is the mode the latest reset
\* found, "none" once a later PATCH has set a mode again.
Served(url, method, outcome, status, resetFrom) ==
    [url |-> url, method |-> method, modeBefore |-> chaosConfig.chaosMode,
     kind |-> outcome.kind, status |-> status, delay |-> outcome.delay,
     resetFrom |-> resetFrom]

\* Any request other than the two writing mode endpoints.
Request(url, roll, rate, delay) ==
    LET outcome == chaosHook(chaosConfig, url, roll, rate, delay) IN
    /\ failuresInjected + outcome.injected <= MaxFailures
    /\ failuresInjected' = failuresInjected + outcome.injected
    /\ lastRequest' = Served(url, "GET", outcome, outcome.status, lastRequest.resetFrom)
    /\ UNCHANGED <<chaosConfig, stateRow>>

\* PATCH /sandbox/mode
PatchMode(mode, latencyMs, failureRate, roll, rate, delay) ==
    LET outcome == chaosHook(chaosConfig, ModeUrl, roll, rate, delay)
        invalid == \/ mode \notin ChaosModes
                   \/ failureRate # Undefined /\ (failureRate < 0 \/ failureRate > 100)
    IN
    /\ failuresInjected + outcome.injected <= MaxFailures
    /\ failuresInjected' = failuresInjected + outcome.injected
    /\ IF outcome.kind \in {"failed", "corrupted"}
       THEN /\ lastRequest' = Served(ModeUrl, "PATCH", outcome, outcome.status,
                                     lastRequest.resetFrom)
            /\ UNCHANGED <<chaosConfig, stateRow>>
       ELSE IF invalid
       THEN /\ lastRequest' = Served(ModeUrl, "PATCH", outcome, 400, lastRequest.resetFrom)
            /\ UNCHANGED <<chaosConfig, stateRow>>
       ELSE /\ chaosConfig' = updateSimulationConfig(chaosConfig, mode, latencyMs, failureRate)
            /\ stateRow' = [exists |-> TRUE, currentMode |-> mode]
            /\ lastRequest' = Served(ModeUrl, "PATCH", outcome, 200, "none")

\* POST /sandbox/mode/reset
ResetMode(roll, rate, delay) ==
    LET outcome == chaosHook(chaosConfig, ResetUrl, roll, rate, delay) IN
    /\ failuresInjected + outcome.injected <= MaxFailures
    /\ IF outcome.kind \in {"failed", "corrupted"}
       THEN /\ failuresInjected' = failuresInjected + outcome.injected
            /\ lastRequest' = Served(ResetUrl, "POST", outcome, outcome.status,
                                     lastRequest.resetFrom)
            /\ UNCHANGED <<chaosConfig, stateRow>>
       ELSE /\ chaosConfig' = resetSimulationConfig
            /\ failuresInjected' = 0
            /\ stateRow' = [exists |-> TRUE, currentMode |-> "normal"]
            /\ lastRequest' = Served(ResetUrl, "POST", outcome, 200, chaosConfig.chaosMode)

chaosFrame == <<lifecycleVars, schedVars, cycleVars, eventVars, detVars, loanVars,
                fraudVars, marketVars, rngVars, faultVars, raceVars, payrollVars>>

ChaosNext ==
    \/ \E url \in PlainUrls, roll \in FlakyRolls, rate \in DefaultRates,
          delay \in DefaultDelays :
          Request(url, roll, rate, delay) /\ UNCHANGED chaosFrame
    \/ \E mode \in RequestedModes, latencyMs \in RequestedLatencies,
          failureRate \in RequestedRates, roll \in FlakyRolls, rate \in DefaultRates,
          delay \in DefaultDelays :
          PatchMode(mode, latencyMs, failureRate, roll, rate, delay) /\ UNCHANGED chaosFrame
    \/ \E roll \in FlakyRolls, rate \in DefaultRates, delay \in DefaultDelays :
          ResetMode(roll, rate, delay) /\ UNCHANGED chaosFrame

ChaosSpec == QuietInit /\ [][ChaosNext]_vars

\* C22: a POST /sandbox/mode/reset, whatever chaos mode it arrives in, is
\* passed by the middleware without delay, failure or corruption and leaves
\* the in-memory and the persisted mode normal; and every request served after
\* a reset and before the next mode update is passed through untouched.
C22_ResetEscapesChaos ==
    /\ (lastRequest.url = ResetUrl /\ lastRequest.method = "POST") =>
          /\ lastRequest.kind = "passed"
          /\ lastRequest.status = 200
          /\ lastRequest.delay = 0
          /\ chaosConfig = DEFAULT_CHAOS_CONFIG
          /\ failuresInjected = 0
          /\ stateRow = [exists |-> TRUE, currentMode |-> "normal"]
    /\ lastRequest.resetFrom # "none" =>
          /\ chaosConfig.chaosMode = "normal"
          /\ lastRequest.kind = "passed"
          /\ lastRequest.delay = 0
          /\ \A url \in PlainUrls, roll \in FlakyRolls, rate \in DefaultRates,
                delay \in DefaultDelays :
                chaosHook(chaosConfig, url, roll, rate, delay) = Passed

C22_Witness ==
    /\ lastRequest.url = <<"accounts">>
    /\ lastRequest.resetFrom = "maintenance"
    /\ lastRequest.kind = "passed"

\* ---------------------------------------------------------------------------
\* FaultSpec: createTransaction / postTransaction / cancelTransaction called
\* one after the other on a store of which one call may throw.  failAt names
\* the store call that throws ("none": every call answers); a call the
\* execution does not reach cannot throw.  One store call throws in a
\* behaviour (fault.faulted); the calls after it are answered.
\* ---------------------------------------------------------------------------

MaxFaultTxns == 2

CreateCalls == {"none", "findAccount", "resetDaily", "createRow", "dailySpent", "balance"}

SettleCalls == {"none", "findTransaction", "balance", "status"}

DomainCodes ==
    {"ACCOUNT_NOT_FOUND", "ACCOUNT_FROZEN", "DAILY_LIMIT_EXCEEDED", "INSUFFICIENT_FUNDS",
     "TRANSACTION_NOT_FOUND", "INVALID_STATUS"}

CatchCode == [create |-> "TRANSACTION_ERROR", post |-> "POST_ERROR", cancel |-> "CANCEL_ERROR"]

\* variant: the catch block rethrows
Caught_Rethrown(before, reached, code) ==
    [accounts |-> reached.accounts, txns |-> reached.txns, code |-> "THROWN",
     failed |-> TRUE]

\* variant: the catch block restores the rows the call found
Caught_RolledBack(before, reached, code) ==
    [accounts |-> before.accounts, txns |-> before.txns, code |-> code, failed |-> TRUE]

\* The catch block of a lifecycle call whose store call threw when the rows
\* were as in reached: it logs and returns { success: false, code }.
Caught(before, reached, code) ==
    [accounts |-> reached.accounts, txns |-> reached.txns, code |-> code, failed |-> TRUE]

\* A return from inside the try block.
Returned(acc, tx, code) == [accounts |-> acc, txns |-> tx, code |-> code, failed |-> FALSE]

createTransactionAt(st, a, type, amount, skip, failAt) ==
    IF failAt = "findAccount" THEN Caught(st, st, CatchCode.create)
    ELSE IF a \notin Accounts THEN Returned(st.accounts, st.txns, "ACCOUNT_NOT_FOUND")
    ELSE
    LET account == st.accounts[a]
        resets == ~skip /\ ~account.frozen /\ type = "debit" /\ NeedsDailyReset(account)
        code == CreateCode(account, type, amount, skip)
        validated == [accounts |-> [st.accounts EXCEPT
                                      ![a] = IF skip THEN @ ELSE ValidatedAccount(@, type)],
                      txns |-> st.txns]
        withRow == [validated EXCEPT !.txns = Append(@, NewTxn(a, type, amount))]
        counts == type = "debit" /\ ~skip
        counted == IF counts
                   THEN [withRow EXCEPT !.accounts[a].dailySpent = @ + amount,
                                        !.accounts[a].dailySpentDate = DayStart(now)]
                   ELSE withRow
    IN  IF resets /\ failAt = "resetDaily" THEN Caught(st, st, CatchCode.create)
        ELSE IF code # "VALID" THEN Returned(validated.accounts, validated.txns, code)
        ELSE IF failAt = "createRow" THEN Caught(st, validated, CatchCode.create)
        ELSE IF counts /\ failAt = "dailySpent" THEN Caught(st, withRow, CatchCode.create)
        ELSE IF failAt = "balance" THEN Caught(st, counted, CatchCode.create)
        ELSE Returned([counted.accounts EXCEPT ![a].balance = @ + HoldChange(type, amount)],
                      counted.txns, "OK")

postTransactionAt(st, id, finalAmount, failAt) ==
    IF failAt = "findTransaction" THEN Caught(st, st, CatchCode.post)
    ELSE IF id \notin DOMAIN st.txns
    THEN Returned(st.accounts, st.txns, "TRANSACTION_NOT_FOUND")
    ELSE
    LET txn == st.txns[id]
        held == [st EXCEPT !.accounts[txn.accountId].balance =
                              @ + PostBalanceChange(txn, finalAmount)]
    IN  IF ~PostAllowed(txn) THEN Returned(st.accounts, st.txns, "INVALID_STATUS")
        ELSE IF AmountDifference(txn, finalAmount) # 0 /\ failAt = "balance"
        THEN Caught(st, st, CatchCode.post)
        ELSE IF failAt = "status" THEN Caught(st, held, CatchCode.post)
        ELSE Returned(held.accounts,
                      [held.txns EXCEPT ![id].status = "posted",
                                        ![id].amount = PostedAmount(txn, finalAmount)],
                      "OK")

cancelTransactionAt(st, id, failAt) ==
    IF failAt = "findTransaction" THEN Caught(st, st, CatchCode.cancel)
    ELSE IF id \notin DOMAIN st.txns
    THEN Returned(st.accounts, st.txns, "TRANSACTION_NOT_FOUND")
    ELSE
    LET txn == st.txns[id]
        released == [st EXCEPT !.accounts[txn.accountId].balance =
                                  @ + CancelBalanceChange(txn)]
    IN  IF ~CancelAllowed(txn) THEN Returned(st.accounts, st.txns, "INVALID_STATUS")
        ELSE IF failAt = "balance" THEN Caught(st, st, CatchCode.cancel)
        ELSE IF failAt = "status" THEN Caught(st, released, CatchCode.cancel)
        ELSE Returned(released.accounts,
                      [released.txns EXCEPT ![id].status = "canceled"], "OK")

\* The store a call leaves, what it returned, and the history of the call.
Leaves(r, op, failAt, id, change) ==
    /\ r.failed => ~fault.faulted
    /\ accounts' = r.accounts
    /\ txns' = r.txns
    /\ result' = r.code
    /\ fault' = [op |-> op, call |-> IF r.failed THEN failAt ELSE "none",
                 failed |-> r.failed, id |-> id,
                 balanceBefore |-> accounts["a1"].balance, change |-> change,
                 faulted |-> fault.faulted \/ r.failed]
    /\ UNCHANGED now

FaultyCreate(a, type, amount, skip, failAt) ==
    LET r == createTransactionAt(CurrentStore, a, type, amount, skip, failAt) IN
    /\ Len(r.txns) <= MaxFaultTxns
    /\ Leaves(r, "create", failAt, Len(txns) + 1, HoldChange(type, amount))

FaultyPost(id, finalAmount, failAt) ==
    Leaves(postTransactionAt(CurrentStore, id, finalAmount, failAt), "post", failAt, id,
           IF id \in DOMAIN txns THEN PostBalanceChange(txns[id], finalAmount) ELSE 0)

FaultyCancel(id, failAt) ==
    Leaves(cancelTransactionAt(CurrentStore, id, failAt), "cancel", failAt, id,
           IF id \in DOMAIN txns THEN CancelBalanceChange(txns[id]) ELSE 0)

faultFrame == <<schedVars, cycleVars, eventVars, detVars, loanVars, fraudVars,
                marketVars, rngVars, chaosVars, raceVars, payrollVars>>

FaultNext ==
    \/ /\ \E a \in AccountIds, o \in CreateOptions, failAt \in CreateCalls :
            FaultyCreate(a, o.type, o.amount, o.skip, failAt)
       /\ UNCHANGED faultFrame
    \/ /\ \E id \in 1..(MaxFaultTxns + 1), failAt \in SettleCalls :
            \E f \in PostArguments(id) : FaultyPost(id, f, failAt)
       /\ UNCHANGED faultFrame
    \/ /\ \E id \in 1..(MaxFaultTxns + 1), failAt \in SettleCalls : FaultyCancel(id, failAt)
       /\ UNCHANGED faultFrame

FaultSpec == QuietInit /\ [][FaultNext]_vars

\* C23 as stated: a domain-rule violation is returned as a failure result
\* with a code, and a store failure reaches the caller as an exception.
C23_StoreFailurePropagates ==
    /\ (fault.op # "none" /\ ~fault.failed) => result \in DomainCodes \cup {"OK"}
    /\ fault.failed => result = "THROWN"

\* C23, amended: no lifecycle call throws.  A domain-rule violation is
\* returned with its own code, and a store failure is caught by the call and
\* returned as a failure result too, with the code of the call's catch block.
C23_EveryFailureIsReturned ==
    /\ result # "THROWN"
    /\ (fault.op # "none" /\ ~fault.failed) => result \in DomainCodes \cup {"OK"}
    /\ fault.failed => result = CatchCode[fault.op]

C23_Witness ==
    /\ fault.op = "post"
    /\ fault.failed
    /\ fault.call = "status"
    /\ result = "POST_ERROR"

\* C24: a store write that fails part-way through a lifecycle call leaves
\* the writes made before it in place.  When the status write of
\* postTransaction or cancelTransaction throws, the balance change of the
\* call has been applied and stays while the transaction is still pending;
\* when the balance write of createTransaction throws, the pending row has
\* been inserted and stays while the balance carries no hold for it.
C24_PartialWritesPersist ==
    /\ (fault.failed /\ fault.op \in {"post", "cancel"} /\ fault.call = "status") =>
          /\ txns[fault.id].status = "pending"
          /\ accounts["a1"].balance = fault.balanceBefore + fault.change
    /\ (fault.failed /\ fault.op = "create" /\ fault.call = "balance") =>
          /\ Len(txns) = fault.id
          /\ txns[fault.id].status = "pending"
          /\ accounts["a1"].balance = fault.balanceBefore

C24_Witness ==
    /\ fault.failed
    /\ fault.op = "cancel"
    /\ fault.call = "status"
    /\ txns[fault.id].status = "pending"
    /\ accounts["a1"].balance # fault.balanceBefore

\* ---------------------------------------------------------------------------
\* RaceSpec: postTransaction and cancelTransaction calls of two callers (two
\* runs of processPendingTransactions, or the post and cancel endpoints),
\* interleaved at their store accesses.  Each store access is one step;
\* balance: { increment } is one atomic write.
\* ---------------------------------------------------------------------------

RaceOps == {"post", "cancel"}

\* the row the call's findUnique returned allows the call
SettleAllowed(op, txn) == IF op = "post" THEN PostAllowed(txn) ELSE CancelAllowed(txn)

\* the balance change the call writes, from the row its findUnique returned
SettleChange(call) ==
    IF call.op = "post" THEN PostBalanceChange(call.txn, call.finalAmount)
    ELSE CancelBalanceChange(call.txn)

SetCall(p, call) == race' = [race EXCEPT ![p] = call]

\* createTransaction, as one step (no other call touches the new row)
RaceCreate(type) ==
    /\ Len(txns) < MaxFaultTxns
    /\ CreateTransaction("a1", type, 30000, FALSE)
    /\ UNCHANGED race

\* a caller enters postTransaction(id, finalAmount) or cancelTransaction(id)
CallBegin(p, op, id, finalAmount) ==
    /\ race[p].pc = "idle"
    /\ SetCall(p, [pc |-> "find", op |-> op, id |-> id, finalAmount |-> finalAmount])
    /\ UNCHANGED <<accounts, txns, now, result>>

\* prisma.transaction.findUnique and the two early returns
CallFind(p) ==
    LET call == race[p] IN
    /\ call.pc = "find"
    /\ IF call.id \notin DOMAIN txns
       THEN /\ result' = "TRANSACTION_NOT_FOUND"
            /\ SetCall(p, IdleCall)
       ELSE IF ~SettleAllowed(call.op, txns[call.id])
       THEN /\ result' = "INVALID_STATUS"
            /\ SetCall(p, IdleCall)
       ELSE /\ result' = result
            /\ SetCall(p, [pc |-> IF call.op = "post"
                                      /\ AmountDifference(txns[call.id],
                                                          call.finalAmount) = 0
                                   THEN "status" ELSE "balance",
                            op |-> call.op, id |-> call.id,
                            finalAmount |-> call.finalAmount, txn |-> txns[call.id]])
    /\ UNCHANGED <<accounts, txns, now>>

\* prisma.account.update({ balance: { increment: balanceChange } })
CallBalance(p) ==
    LET call == race[p] IN
    /\ call.pc = "balance"
    /\ accounts' = [accounts EXCEPT ![call.txn.accountId].balance = @ + SettleChange(call)]
    /\ SetCall(p, [call EXCEPT !.pc = "status"])
    /\ UNCHANGED <<txns, now, result>>

\* prisma.transaction.update({ status, amount }) and the successful return
CallStatus(p) ==
    LET call == race[p] IN
    /\ call.pc = "status"
    /\ txns' = IF call.op = "post"
               THEN [txns EXCEPT ![call.id].status = "posted",
                                 ![call.id].amount = PostedAmount(call.txn, call.finalAmount)]
               ELSE [txns EXCEPT ![call.id].status = "canceled"]
    /\ result' = "OK"
    /\ SetCall(p, IdleCall)
    /\ UNCHANGED <<accounts, now>>

raceFrame == <<schedVars, cycleVars, eventVars, detVars, loanVars, fraudVars,
               marketVars, rngVars, chaosVars, faultVars, payrollVars>>

RaceNext ==
    \/ \E type \in Types : RaceCreate(type) /\ UNCHANGED raceFrame
    \/ \E p \in Runs, op \in RaceOps, id \in 1..MaxFaultTxns :
          \E f \in PostArguments(id) :
             /\ op = "cancel" => f = NoAmount
             /\ CallBegin(p, op, id, f)
             /\ UNCHANGED raceFrame
    \/ \E p \in Runs : CallFind(p) /\ UNCHANGED raceFrame
    \/ \E p \in Runs : CallBalance(p) /\ UNCHANGED raceFrame
    \/ \E p \in Runs : CallStatus(p) /\ UNCHANGED raceFrame

RaceSpec == QuietInit /\ [][RaceNext]_vars

\* C25: when post and cancel calls on the same pending transaction interleave
\* at their store accesses, the hold is settled against the balance exactly
\* once: once no call is in flight, each balance is the signed sum of the
\* account's posted and pending transactions.
C25_SettledOnceUnderInterleaving ==
    (\A p \in Runs : race[p].pc = "idle") =>
        \A a \in Accounts : accounts[a].balance = SumContributions(txns, a, Len(txns))

\* ---------------------------------------------------------------------------
\* LedgerSpec: the writers of Account.balance and of Transaction rows outside
\* the lifecycle manager, called one after the other on the seeded store:
\* the disbursement of approveLoan, the payment of processLoanPayment,
\* triggerFraudEvent and PATCH /sandbox/account/:id/set-balance.
\* ---------------------------------------------------------------------------

MaxLedgerTxns == 7

\* for (let i = 0; i < 5; i++)
CardTestingCharges == 5

\* 100 + Math.floor(Math.random() * 400)
ChargeAmounts == {100, 499}

PaymentAmounts == {10000, 22728}

\* a row written with prisma.transaction.create by an engine: posted at once
PostedRow(a, type, amount) ==
    [accountId |-> a, type |-> type, amount |-> amount, authorizedAmount |-> NoAmount,
     status |-> "posted", postAt |-> NoPostAt]

RECURSIVE AppendCharges(_, _, _, _)
AppendCharges(tx, a, amounts, i) ==
    IF i > Len(amounts) THEN tx
    ELSE AppendCharges(Append(tx, PostedRow(a, "debit", amounts[i])), a, amounts, i + 1)

\* approveLoan: the disbursement of the principal and its transaction row
DisburseLoan(a, principal) ==
    /\ Len(txns) < MaxLedgerTxns
    /\ accounts' = [accounts EXCEPT ![a].balance = @ + principal]
    /\ txns' = Append(txns, PostedRow(a, "credit", principal))
    /\ result' = "OK"
    /\ UNCHANGED now

\* processLoanPayment on an active loan: the deduction and its transaction
\* row, or the missed payment when the balance is below the amount
PayLoan(a, amount) ==
    /\ Len(txns) < MaxLedgerTxns
    /\ IF accounts[a].balance < amount
       THEN /\ result' = "MISSED"
            /\ UNCHANGED <<accounts, txns>>
       ELSE /\ accounts' = [accounts EXCEPT ![a].balance = @ - amount]
            /\ txns' = Append(txns, PostedRow(a, "debit", amount))
            /\ result' = "OK"
    /\ UNCHANGED now

\* triggerFraudEvent for the account's owner: five posted card-testing debits
\* and a critical alert, which freezes the account
TriggerFraudCharges(a, amounts) ==
    /\ Len(txns) + CardTestingCharges <= MaxLedgerTxns
    /\ txns' = AppendCharges(txns, a, amounts, 1)
    /\ accounts' = [accounts EXCEPT ![a].frozen = @ \/ AutoFreezes("critical")]
    /\ result' = "OK"
    /\ UNCHANGED now

\* PATCH /sandbox/account/:id/set-balance
SetBalance(a, balance) ==
    /\ accounts' = [accounts EXCEPT ![a].balance = balance]
    /\ result' = "OK"
    /\ UNCHANGED <<txns, now>>

ledgerFrame == <<schedVars, engineVars>>

LedgerNext ==
    \/ \E a \in Accounts, principal \in LoanAmounts :
          DisburseLoan(a, principal) /\ UNCHANGED ledgerFrame
    \/ \E a \in Accounts, amount \in PaymentAmounts :
          PayLoan(a, amount) /\ UNCHANGED ledgerFrame
    \/ \E a \in Accounts, amounts \in [1..CardTestingCharges -> ChargeAmounts] :
          TriggerFraudCharges(a, amounts) /\ UNCHANGED ledgerFrame
    \/ \E a \in Accounts, balance \in LoanBalances :
          SetBalance(a, balance) /\ UNCHANGED ledgerFrame

LedgerSpec == QuietInit /\ [][LedgerNext]_vars

\* C26: every writer of balances or transaction rows outside the lifecycle
\* manager changes the balance by exactly the signed amounts of the posted or
\* pending transactions it adds, and so keeps the balance equal to the signed
\* sum of the account's posted and pending transactions.
C26_OutsideWritersKeepBalance ==
    [][\A a \in Accounts :
          accounts'[a].balance - accounts[a].balance
            = SumContributions(txns', a, Len(txns')) - SumContributions(txns, a, Len(txns))]_vars

----------------------------------------------------------------------------
(* Further claims about the scheduler, checked under SchedSpec *)

\* a startSimulation call is between its first line and its return
StartInProgress == \E c \in DOMAIN cycles : cycles[c].origin = "start"

\* C27: at most one recurring cycle timer is scheduled at any moment, and
\* while no startSimulation call is in progress (stopSimulation is synchronous
\* and never is) a timer is scheduled exactly when isSimulationRunning()
\* reports true.
C27_OneTimerIffRunning ==
    /\ Cardinality(liveTimers) <= 1
    /\ ~StartInProgress => (liveTimers # {} <=> isRunning)

\* a runSimulationCycle call is between its entry and its return or throw
Executing(c) == cycles[c].pc \in {"markRunning", "body", "finish", "catch"}

\* C28: no two executions of runSimulationCycle overlap, and the persisted
\* isRunning flag is true exactly while a cycle executes: it is true only
\* while some cycle is executing, and it is true whenever a cycle is inside
\* its try block.
C28_CyclesDoNotOverlap ==
    /\ Cardinality({c \in DOMAIN cycles : Executing(c)}) <= 1
    /\ stateIsRunning => \E c \in DOMAIN cycles : Executing(c)
    /\ (\E c \in DOMAIN cycles : cycles[c].pc \in {"body", "finish"}) => stateIsRunning

\* ---------------------------------------------------------------------------
\* PaydaySpec: the income part of generateAccountTransactions over the cycles
\* of a day, the cycles run one after the other.  Day 0 is Friday the 29th
\* of a 30-day month, so that day 1 is a monthly and biweekly payday.
\* ---------------------------------------------------------------------------

MaxIncomeCycles == 3

FirstDayOfMonth == 29

LastDayOfMonth == 30

Friday == 5

\* new Date() on day d: getDate(), the month's last day, getDay()
DateOf(d) ==
    [dayOfMonth |-> ((FirstDayOfMonth + d - 1) % LastDayOfMonth) + 1,
     lastDayOfMonth |-> LastDayOfMonth,
     weekday |-> (Friday + d) % 7]

\* persona.incomePattern.frequency of the account's persona: a student, a
\* spender
IncomeFrequency == [a1 |-> "monthly", a2 |-> "biweekly"]

isPayday(date, frequency) ==
    IF frequency = "monthly" THEN date.dayOfMonth = date.lastDayOfMonth
    ELSE IF frequency = "biweekly"
         THEN date.dayOfMonth = 15 \/ date.dayOfMonth = date.lastDayOfMonth
    ELSE IF frequency = "weekly" THEN date.weekday = Friday
    ELSE FALSE

\* the accounts for which a cycle run now calls createTransaction with the
\* salary credit: the unfrozen accounts whose persona has a payday today
PaidAccounts ==
    {a \in CycleAccounts \ frozenAccounts : isPayday(DateOf(today), IncomeFrequency[a])}

\* one runSimulationCycle: the salary credits of its account loop; created
\* are the accounts whose createTransaction returned success
IncomeCycle(created) ==
    /\ payroll.cycles < MaxIncomeCycles
    /\ created \subseteq PaidAccounts
    /\ payroll' = [cycles |-> payroll.cycles + 1,
                   credits |-> [a \in CycleAccounts |->
                                   payroll.credits[a] + (IF a \in created THEN 1 ELSE 0)]]
    /\ UNCHANGED <<frozenAccounts, inserted, today, lastDayProcessed, dailyRuns, cycle>>

\* midnight: the credits of the new day are counted from zero
PaydayPasses ==
    /\ DayPasses
    /\ payroll' = NoPayroll

payrollFrame == <<lifecycleVars, schedVars, eventVars, detVars, loanVars, fraudVars,
                  marketVars, rngVars, chaosVars, faultVars, raceVars>>

PaydayNext ==
    \/ (\E created \in SUBSET CycleAccounts : IncomeCycle(created)) /\ UNCHANGED payrollFrame
    \/ (\E a \in CycleAccounts : FreezeAccount(a)) /\ UNCHANGED <<payroll, payrollFrame>>
    \/ (\E a \in CycleAccounts : UnfreezeAccount(a)) /\ UNCHANGED <<payroll, payrollFrame>>
    \/ PaydayPasses /\ UNCHANGED payrollFrame

PaydaySpec == QuietInit /\ [][PaydayNext]_vars

\* C29: over all the cycles run on one payday, each account receives at most
\* one salary credit for that day.
C29_OneSalaryPerPayday ==
    \A a \in CycleAccounts : payroll.credits[a] <= 1

\* ---------------------------------------------------------------------------
\* RowSpec: runSimulationCycle and the SimulationState singleton row, on a
\* store that answers every call.  The seed creates no SimulationState row;
\* prisma's update rejects (record not found) when the row is missing, upsert
\* and getSimulationState create it.
\* ---------------------------------------------------------------------------

\* updateSimulationState: prisma.simulationState.update({ where: { id: 'singleton' } })
\* succeeds exactly when the row exists
updateSimulationState(row) == row.exists

\* getSimulationState: findUnique, and create when there is no row
getSimulationState(row) == IF row.exists THEN row ELSE [row EXCEPT !.exists = TRUE]

\* runSimulationCycle as one step: its first store call is
\* updateSimulationState({ isRunning: true }), before the try block and
\* before any getSimulationState; when it is rejected the cycle throws
RowCycle ==
    /\ IF updateSimulationState(stateRow)
       THEN /\ cycle' = [IdleCycle EXCEPT !.pc = "returned"]
            /\ stateRow' = getSimulationState(stateRow)
            /\ stateIsRunning' = FALSE
       ELSE /\ cycle' = [IdleCycle EXCEPT !.pc = "threw"]
            /\ UNCHANGED <<stateRow, stateIsRunning>>
    /\ UNCHANGED <<chaosConfig, failuresInjected, lastRequest>>

\* getSimulationStats (GET /sandbox/simulation/status): reads the row
\* through getSimulationState
GetSimulationStats ==
    /\ stateRow' = getSimulationState(stateRow)
    /\ cycle' = IdleCycle
    /\ UNCHANGED <<chaosConfig, failuresInjected, lastRequest, stateIsRunning>>

rowFrame == <<lifecycleVars, eventVars, detVars, loanVars, fraudVars, marketVars, rngVars,
              isRunning, simulationTimer, liveTimers, timersMade, cycles, stopped,
              frozenAccounts, inserted, today, lastDayProcessed, dailyRuns>>

RowNext ==
    \/ RowCycle /\ UNCHANGED <<rowFrame, faultVars, raceVars, payrollVars>>
    \/ GetSimulationStats /\ UNCHANGED <<rowFrame, faultVars, raceVars, payrollVars>>
    \/ \E mode \in RequestedModes, latencyMs \in RequestedLatencies,
          failureRate \in RequestedRates :
          /\ PatchMode(mode, latencyMs, failureRate, 0, 20, 2000)
          /\ UNCHANGED <<cycle, stateIsRunning, rowFrame, faultVars, raceVars, payrollVars>>
    \/ /\ ResetMode(0, 20, 2000)
       /\ UNCHANGED <<cycle, stateIsRunning, rowFrame, faultVars, raceVars, payrollVars>>

RowSpec == QuietInit /\ [][RowNext]_vars

\* C30: a simulation cycle completes also when the SimulationState singleton
\* row does not exist yet: the row is created on demand, so on a store that
\* answers every call no cycle ends by throwing, and a cycle that is over
\* leaves the row in place.
C30_CycleCreatesStateRow ==
    cycle.pc \in {"returned", "threw"} => (cycle.pc = "returned" /\ stateRow.exists)

====
